---- MODULE Spec2Model ----
(***************************************************************************)
(* Combat resolution layer of src/main.py (Player, Enemy, CombatGame).     *)
(*                                                                         *)
(* Units.  Times are integer milliseconds (main() derives dt from          *)
(* clock.tick(60), an integer number of milliseconds, and                  *)
(* handle_direction_tap reads pygame.time.get_ticks(), also integer        *)
(* milliseconds).  Stamina is kept in thousandths of a point, myth energy  *)
(* in tenths of a point, the action histogram in 1/10000 and the adaptive  *)
(* biases in thousandths, so that every product the code forms with the    *)
(* frame times used (multiples of 20 ms) is an integer.  Positions are pygame.Rect integer  *)
(* pixels; int() is truncation toward zero.                                *)
(***************************************************************************)
EXTENDS Integers, Sequences, FiniteSets, TLC

\* ---------------------------------------------------------------- bounds
\* Horizons, in tenths of a second of pygame.time.get_ticks(): no frame of
\* the specification named ends after its horizon.
StaminaTime == 24
CastTime == 12
TapTime == 12
SwingTime == 10
MeleeTime == 20
BrawlTime == 20
TradeTime == 29
EvadeTime == 17
AutoTime == 25
\* the largest damage amount tried on Player.damage and Enemy.damage
MaxDamage == 125
\* the horizon of mash play
MashTime == 10
\* the light actions recorded in a row on the empty histogram, at most
BiasRecords == 50
\* the horizon of the frames that follow them, in tenths of a second
BiasTime == 30
\* the horizons of the move and cross plays
MoveTime == 10
CrossTime == 25
\* the horizon of the combo play
ComboTime == 35
\* the horizon of the storm play
StormTime == 24

\* ------------------------------------------------------ program constants
WIDTH == 960
HEIGHT == 540
GROUND_Y == HEIGHT - 120
GRAVITY == 2200

LIGHT_ATTACK ==
  [name |-> "light", damage |-> 12, stamina_cost |-> 12000, duration |-> 240,
   cooldown |-> 350, hitbox_width |-> 70, knockback |-> 220,
   active_start |-> 80, active_end |-> 180]

HEAVY_ATTACK ==
  [name |-> "heavy", damage |-> 24, stamina_cost |-> 24000, duration |-> 420,
   cooldown |-> 620, hitbox_width |-> 96, knockback |-> 340,
   active_start |-> 120, active_end |-> 280]

\* Optional[AttackData] / Optional[pygame.Rect]: None
NoAttack == [name |-> "none"]
NoRect == [x |-> 0, y |-> 0, w |-> 0, h |-> 0]

PARRY_COST == 16000
PARRY_WINDOW == 250
PARRY_COOLDOWN == 600
PARRY_REFUND == 18000
ENEMY_ATTACK_DAMAGE == 18

STAMINA_REGEN == 26
MAX_STAMINA == 100000
MAX_HEALTH == 100
ENEMY_MAX_HEALTH == 120

MAX_MYTH_ENERGY == 1000
MYTH_ENERGY_START == 400
MYTH_ENERGY_HIT_GAIN == 120
MYTH_ENERGY_HEAVY_BONUS == 60
MYTH_ENERGY_PARRY_GAIN == 180
MYTH_ENERGY_DAMAGE_LOSS == 140

TIME_SLOW_COST == 360
TIME_SLOW_DURATION == 3000
TIME_SLOW_COOLDOWN == 8000
TIME_SLOW_FACTOR == 35

LIGHTNING_COST == 300
LIGHTNING_COOLDOWN == 5000
LIGHTNING_STUN == 900
LIGHTNING_RADIUS == 140
LIGHTNING_DAMAGE == 30
LIGHTNING_LIFETIME == 900
LIGHTNING_WARMUP == 180
LIGHTNING_KNOCKBACK == 260

VOID_SHIFT_COST == 200
VOID_SHIFT_COOLDOWN == 2400
VOID_SHIFT_DISTANCE == 190
VOID_SHIFT_IFRAMES == 600
VOID_SHIFT_DOUBLE_TAP == 280
TAP_SENTINEL == -999000

COMBO_RESET_TIME == 2200
COMBO_HEAVY_EXTRA == 400
COMBO_DAMAGE_SCALE == 12
TIME_SLOW_DAMAGE_BONUS == 8

HIT_STOP_LIGHT == 55
HIT_STOP_HEAVY == 80

CHASE_RANGE == 220
WINDUP_RANGE == 120
PLAYER_START_X == 260
ENEMY_START_X == WIDTH - 220
RECT_W == 54
STAND_H == 90
CROUCH_H == 60
PATROL_LO == WIDTH \div 2
PATROL_HI == WIDTH - 80

\* ------------------------------------------------------------- arithmetic
Max(a, b) == IF a >= b THEN a ELSE b
Min(a, b) == IF a <= b THEN a ELSE b
Abs(a) == IF a >= 0 THEN a ELSE -a

\* the value of a function defined at one point, [x \in {v} |-> body]: body
\* with x standing for the value of v, which is computed once, as an
\* assignment to a local of the code does
Let(f) == CHOOSE r \in {g[CHOOSE u \in DOMAIN g : TRUE] : g \in {f}} : TRUE
\* int(n / d) for d > 0: truncation toward zero
Trunc(n, d) == IF n >= 0 THEN n \div d ELSE -((-n) \div d)

\* ------------------------------------------------------------ pygame.Rect
Rect(x, y, w, h) == [x |-> x, y |-> y, w |-> w, h |-> h]
Bottom(r) == r.y + r.h
CenterX(r) == r.x + r.w \div 2
CenterY(r) == r.y + r.h \div 2
\* bool(rect): a rect with zero width or height is falsy, like None
Truthy(r) == r.w /= 0 /\ r.h /= 0
CollideRect(a, b) ==
  /\ Truthy(a) /\ Truthy(b)
  /\ a.x < b.x + b.w /\ a.y < b.y + b.h
  /\ a.x + a.w > b.x /\ a.y + a.h > b.y

\* ----------------------------------------------------------------- Player
\* Player.__init__
PlayerInit(x) ==
  [rect |-> Rect(x, GROUND_Y - STAND_H, RECT_W, STAND_H),
   vx |-> 0, vy |-> 0,
   health |-> MAX_HEALTH, stamina |-> MAX_STAMINA,
   myth_energy |-> MYTH_ENERGY_START,
   facing |-> 1, crouching |-> FALSE, on_ground |-> TRUE,
   attack_timer |-> 0, attack_cooldown |-> 0,
   current_attack |-> NoAttack, attack_hitbox |-> NoRect,
   attack_has_connected |-> FALSE,
   parry_timer |-> 0, parry_cooldown |-> 0, parry_success_flash |-> 0,
   hit_flash |-> 0, animation_lock |-> 0,
   pending_feedback |-> "none",
   parry_triggered |-> FALSE, parry_successful |-> FALSE,
   invulnerable_timer |-> 0, void_shift_cooldown |-> 0, cast_flash |-> 0]

\* keys: the held-key snapshot, [a, d, s, w |-> BOOLEAN]
Keys(a, d, s, w) == [a |-> a, d |-> d, s |-> s, w |-> w]

\* Player.handle_input
HandleInput(p, keys) ==
  LET speed == IF p.crouching THEN 168 ELSE 280
      vx == IF keys.d THEN speed ELSE IF keys.a THEN -speed ELSE 0
      facing == IF keys.d THEN 1 ELSE IF keys.a THEN -1 ELSE p.facing
      crouch == keys.s /\ p.on_ground
      rect == IF crouch /\ ~p.crouching
                THEN [p.rect EXCEPT !.h = CROUCH_H, !.y = @ + 30]
              ELSE IF ~crouch /\ p.crouching
                THEN [p.rect EXCEPT !.y = @ - 30, !.h = STAND_H]
              ELSE p.rect
      jump == keys.w /\ p.on_ground
  IN [p EXCEPT !.vx = vx, !.facing = facing, !.rect = rect,
               !.crouching = crouch,
               !.vy = IF jump THEN -780 ELSE @,
               !.on_ground = IF jump THEN FALSE ELSE @]

\* Player._trigger_attack: TRUE when neither early return is taken
CanTriggerAttack(p, attack) ==
  /\ ~(p.attack_timer > 0 \/ p.attack_cooldown > 0)
  /\ ~(p.stamina < attack.stamina_cost)

\* Player._trigger_attack without the stamina test of line 422
TriggerAttackUnchecked(p, attack) ==
  IF p.attack_timer > 0 \/ p.attack_cooldown > 0 THEN p
  ELSE [p EXCEPT !.stamina = Max(0, @ - attack.stamina_cost),
                 !.attack_timer = attack.duration,
                 !.attack_cooldown = attack.cooldown,
                 !.current_attack = attack,
                 !.attack_hitbox = NoRect,
                 !.attack_has_connected = FALSE,
                 !.animation_lock = attack.duration]

\* Player._trigger_attack without the test of line 420: a press during a
\* swing or its cooldown starts the attack over
TriggerAttackRefire(p, attack) ==
  IF p.stamina < attack.stamina_cost THEN p
  ELSE [p EXCEPT !.stamina = @ - attack.stamina_cost,
                 !.attack_timer = attack.duration,
                 !.attack_cooldown = attack.cooldown,
                 !.current_attack = attack,
                 !.attack_hitbox = NoRect,
                 !.attack_has_connected = FALSE,
                 !.animation_lock = attack.duration]

\* Player._trigger_attack
TriggerAttack(p, attack) ==
  IF ~CanTriggerAttack(p, attack) THEN p
  ELSE [p EXCEPT !.stamina = @ - attack.stamina_cost,
                 !.attack_timer = attack.duration,
                 !.attack_cooldown = attack.cooldown,
                 !.current_attack = attack,
                 !.attack_hitbox = NoRect,
                 !.attack_has_connected = FALSE,
                 !.animation_lock = attack.duration]

\* Player.parry: TRUE when neither early return is taken
CanParry(p) ==
  /\ ~(p.parry_timer > 0 \/ p.parry_cooldown > 0)
  /\ ~(p.stamina < PARRY_COST)

\* Player.parry
PlayerParry(p) ==
  IF ~CanParry(p) THEN p
  ELSE [p EXCEPT !.stamina = @ - PARRY_COST,
                 !.parry_timer = PARRY_WINDOW,
                 !.parry_cooldown = PARRY_COOLDOWN,
                 !.parry_triggered = TRUE,
                 !.parry_successful = FALSE,
                 !.animation_lock = PARRY_WINDOW]

\* a countdown field decremented without the clamp at 0
TickUnclamped(t, dt) == IF t > 0 THEN t - dt ELSE t

\* a countdown field: if t > 0: t = max(0.0, t - dt)
Tick(t, dt) == IF t > 0 THEN Max(0, t - dt) ELSE t

\* Player.update, lines 450-465: gravity, integration, ground and arena clamps
PlayerMove(p, dt) ==
  LET vy1 == p.vy + (GRAVITY * dt) \div 1000
      x1 == p.rect.x + Trunc(p.vx * dt, 1000)
      y1 == p.rect.y + Trunc(vy1 * dt, 1000)
      landed == y1 + p.rect.h >= GROUND_Y
      y2 == IF landed THEN GROUND_Y - p.rect.h ELSE y1
      x2 == IF x1 < 30 THEN 30 ELSE x1
      x3 == IF x2 + p.rect.w > WIDTH - 30 THEN WIDTH - 30 - p.rect.w ELSE x2
  IN [p EXCEPT !.vy = IF landed THEN 0 ELSE vy1,
               !.on_ground = landed,
               !.rect = [@ EXCEPT !.x = x3, !.y = y2]]

\* the window test with the end of the window left out
InActiveWindowOpenEnd(attack, elapsed) ==
  attack.active_start <= elapsed /\ elapsed < attack.active_end

\* the window test of Player.update, line 470
InActiveWindow(attack, elapsed) ==
  attack.active_start <= elapsed /\ elapsed <= attack.active_end

\* the hitbox built by Player.update, lines 471-477
AttackHitbox(p, attack) ==
  Rect(CenterX(p.rect) + attack.hitbox_width * p.facing
         - attack.hitbox_width \div 2,
       CenterY(p.rect) - 34, attack.hitbox_width, 68)

\* Player.update, lines 467-485: the attack in progress and its hitbox
PlayerAttackStep(p, dt) ==
  IF p.attack_timer > 0 /\ p.current_attack /= NoAttack
  THEN LET timer == Max(0, p.attack_timer - dt)
           elapsed == p.current_attack.duration - timer
           box == IF InActiveWindow(p.current_attack, elapsed)
                    THEN AttackHitbox(p, p.current_attack) ELSE NoRect
       IN IF timer <= 0
            THEN [p EXCEPT !.attack_timer = timer, !.attack_hitbox = NoRect,
                           !.current_attack = NoAttack]
            ELSE [p EXCEPT !.attack_timer = timer, !.attack_hitbox = box]
  ELSE [p EXCEPT !.attack_hitbox = NoRect, !.current_attack = NoAttack]

\* Player.update, lines 487-509: countdowns and stamina regeneration
PlayerTimers(p, dt) ==
  [p EXCEPT !.attack_cooldown = Tick(@, dt),
            !.parry_timer = Tick(@, dt),
            !.parry_cooldown = Tick(@, dt),
            !.parry_success_flash = Tick(@, dt),
            !.hit_flash = Tick(@, dt),
            !.invulnerable_timer = Tick(@, dt),
            !.void_shift_cooldown = Tick(@, dt),
            !.cast_flash = Tick(@, dt),
            !.animation_lock = Tick(@, dt),
            !.stamina = IF @ < MAX_STAMINA
                          THEN Min(MAX_STAMINA, @ + STAMINA_REGEN * dt) ELSE @]

\* the expiry of lines 511-513 leaving the parry triggered
PlayerParryExpiryRepeats(p) ==
  IF p.parry_timer <= 0 /\ p.parry_triggered /\ ~p.parry_successful
  THEN [p EXCEPT !.pending_feedback = "fail"]
  ELSE p

\* Player.update, lines 511-513: the parry window closed without a success
PlayerParryExpiry(p) ==
  IF p.parry_timer <= 0 /\ p.parry_triggered /\ ~p.parry_successful
  THEN [p EXCEPT !.pending_feedback = "fail", !.parry_triggered = FALSE]
  ELSE p

\* Player.update
PlayerUpdate(p, dt) ==
  Let([moved \in {PlayerMove(p, dt)} |->
  Let([stepped \in {PlayerAttackStep(moved, dt)} |->
  Let([timed \in {PlayerTimers(stepped, dt)} |->
    PlayerParryExpiry(timed)])])])

\* Player.damage without the clamp of health at 0
PlayerDamageUnclamped(p, amount) ==
  [p EXCEPT !.health = @ - amount,
            !.hit_flash = 250,
            !.animation_lock = 200,
            !.myth_energy = Max(0, @ - MYTH_ENERGY_DAMAGE_LOSS)]

\* Player.damage
PlayerDamage(p, amount) ==
  [p EXCEPT !.health = Max(0, @ - amount),
            !.hit_flash = 250,
            !.animation_lock = 200,
            !.myth_energy = Max(0, @ - MYTH_ENERGY_DAMAGE_LOSS)]

\* Player.heal_stamina
HealStamina(p, amount) ==
  [p EXCEPT !.stamina = Min(MAX_STAMINA, @ + amount)]

\* Player.gain_myth_energy without the cap at max_myth_energy
GainMythEnergyUncapped(p, amount) ==
  [p EXCEPT !.myth_energy = @ + amount]

\* Player.gain_myth_energy
GainMythEnergy(p, amount) ==
  [p EXCEPT !.myth_energy = Min(MAX_MYTH_ENERGY, @ + amount)]

\* Player.register_parry_success
RegisterParrySuccess(p) ==
  [p EXCEPT !.parry_successful = TRUE,
            !.parry_triggered = FALSE,
            !.pending_feedback = "success",
            !.parry_success_flash = 400,
            !.animation_lock = 250,
            !.myth_energy = Min(MAX_MYTH_ENERGY, @ + MYTH_ENERGY_PARRY_GAIN)]

\* Player.spend_myth_energy: the return value
CanSpendMyth(p, cost) == ~(p.myth_energy < cost)

\* Player.spend_myth_energy: the pool afterwards
SpendMythEnergy(p, cost) ==
  IF CanSpendMyth(p, cost) THEN [p EXCEPT !.myth_energy = @ - cost] ELSE p

\* Player.void_shift: the return value
CanVoidShift(p) ==
  ~(p.void_shift_cooldown > 0) /\ CanSpendMyth(p, VOID_SHIFT_COST)

\* Player.void_shift without the clamp of line 557
VoidShiftUnclamped(p, direction) ==
  IF ~CanVoidShift(p) THEN p
  ELSE LET q == SpendMythEnergy(p, VOID_SHIFT_COST)
       IN [q EXCEPT !.rect.x = @ + direction * VOID_SHIFT_DISTANCE,
                    !.void_shift_cooldown = VOID_SHIFT_COOLDOWN,
                    !.invulnerable_timer = VOID_SHIFT_IFRAMES,
                    !.animation_lock = 200,
                    !.cast_flash = 180]

\* Player.void_shift
VoidShift(p, direction) ==
  IF ~CanVoidShift(p) THEN p
  ELSE LET q == SpendMythEnergy(p, VOID_SHIFT_COST)
           x1 == q.rect.x + direction * VOID_SHIFT_DISTANCE
       IN [q EXCEPT !.rect.x = Max(30, Min(x1, WIDTH - 84)),
                    !.void_shift_cooldown = VOID_SHIFT_COOLDOWN,
                    !.invulnerable_timer = VOID_SHIFT_IFRAMES,
                    !.animation_lock = 200,
                    !.cast_flash = 180]

\* Player.is_invulnerable
IsInvulnerable(p) == p.invulnerable_timer > 0

\* ------------------------------------------------------------------ Enemy
\* Enemy.__init__
EnemyInit(x) ==
  [rect |-> Rect(x, GROUND_Y - STAND_H, RECT_W, STAND_H),
   vx |-> -120, health |-> ENEMY_MAX_HEALTH, facing |-> -1,
   state |-> "PATROL", state_timer |-> 0, attack_rect |-> NoRect,
   hit_flash |-> 0, animation_lock |-> 0,
   chase_speed |-> 200000, windup_duration |-> 350,
   recover_duration |-> 500, attack_duration |-> 220]

\* Enemy._change_state
ChangeState(e, state, timer) ==
  [e EXCEPT !.state = state,
            !.state_timer = timer,
            !.attack_rect = IF state \in {"WINDUP", "ATTACK"} THEN NoRect ELSE @,
            !.animation_lock =
               IF state \in {"WINDUP", "ATTACK", "STUNNED"} THEN timer ELSE @]

\* Enemy._patrol turning round one pixel beyond the left patrol bound
PatrolOverstepsLeft(e, dt) ==
  LET x1 == e.rect.x + Trunc(e.vx * dt, 1000)
  IN IF x1 < PATROL_LO
       THEN [e EXCEPT !.rect.x = PATROL_LO - 1, !.vx = Abs(e.vx), !.facing = 1]
     ELSE IF x1 + e.rect.w >= PATROL_HI
       THEN [e EXCEPT !.rect.x = PATROL_HI - e.rect.w, !.vx = -Abs(e.vx),
                      !.facing = -1]
     ELSE [e EXCEPT !.rect.x = x1]

\* Enemy._patrol
Patrol(e, dt) ==
  LET x1 == e.rect.x + Trunc(e.vx * dt, 1000)
  IN IF x1 <= PATROL_LO
       THEN [e EXCEPT !.rect.x = PATROL_LO, !.vx = Abs(e.vx), !.facing = 1]
     ELSE IF x1 + e.rect.w >= PATROL_HI
       THEN [e EXCEPT !.rect.x = PATROL_HI - e.rect.w, !.vx = -Abs(e.vx),
                      !.facing = -1]
     ELSE [e EXCEPT !.rect.x = x1]

\* Enemy._chase winding up as soon as the player is in chase range
ChaseEager(e, dt, p) ==
  LET direction == IF CenterX(p.rect) - CenterX(e.rect) >= 0 THEN 1 ELSE -1
      x1 == e.rect.x + Trunc(direction * e.chase_speed * dt, 1000000)
      e1 == [e EXCEPT !.facing = direction, !.rect.x = x1]
  IN IF Abs(CenterX(p.rect) - CenterX(e1.rect)) < CHASE_RANGE
       THEN ChangeState(e1, "WINDUP", e1.windup_duration)
       ELSE e1

\* Enemy._chase going over to the attack with no windup
ChaseToAttack(e, dt, p) ==
  LET direction == IF CenterX(p.rect) - CenterX(e.rect) >= 0 THEN 1 ELSE -1
      x1 == e.rect.x + Trunc(direction * e.chase_speed * dt, 1000000)
      e1 == [e EXCEPT !.facing = direction, !.rect.x = x1]
  IN IF Abs(CenterX(p.rect) - CenterX(e1.rect)) < WINDUP_RANGE
       THEN ChangeState(e1, "ATTACK", e1.attack_duration)
       ELSE e1

\* Enemy._chase; chase_speed is in thousandths of a pixel per second
Chase(e, dt, p) ==
  LET direction == IF CenterX(p.rect) - CenterX(e.rect) >= 0 THEN 1 ELSE -1
      x1 == e.rect.x + Trunc(direction * e.chase_speed * dt, 1000000)
      e1 == [e EXCEPT !.facing = direction, !.rect.x = x1]
  IN IF Abs(CenterX(p.rect) - CenterX(e1.rect)) < WINDUP_RANGE
       THEN ChangeState(e1, "WINDUP", e1.windup_duration)
       ELSE e1

\* the hitbox built by Enemy.update, lines 638-643
EnemyAttackRect(e) ==
  Rect(CenterX(e.rect) + e.facing * 45 - 50, CenterY(e.rect) - 35, 100, 70)

\* Enemy.update, lines 626-654: the state machine
EnemyAI(e, dt, p) ==
  CASE e.state = "PATROL" ->
         LET e1 == Patrol(e, dt)
         IN IF Abs(CenterX(p.rect) - CenterX(e1.rect)) < CHASE_RANGE
              THEN ChangeState(e1, "CHASE", 0) ELSE e1
    [] e.state = "CHASE" -> Chase(e, dt, p)
    [] e.state = "WINDUP" ->
         LET e1 == [e EXCEPT !.state_timer = @ - dt]
         IN IF e1.state_timer <= 0
              THEN ChangeState(e1, "ATTACK", e1.attack_duration) ELSE e1
    [] e.state = "ATTACK" ->
         LET e1 == [e EXCEPT !.state_timer = @ - dt,
                             !.attack_rect = EnemyAttackRect(e)]
         IN IF e1.state_timer <= 0
              THEN ChangeState([e1 EXCEPT !.attack_rect = NoRect],
                               "RECOVER", e1.recover_duration)
              ELSE e1
    [] e.state = "RECOVER" ->
         LET e1 == [e EXCEPT !.state_timer = @ - dt]
         IN IF e1.state_timer <= 0 THEN ChangeState(e1, "PATROL", 0) ELSE e1
    [] e.state = "STUNNED" ->
         LET e1 == [e EXCEPT !.state_timer = @ - dt]
         IN IF e1.state_timer <= 0
              THEN ChangeState(e1, "RECOVER", e1.recover_duration + 100)
              ELSE e1

\* Enemy.update
EnemyUpdate(e, dt, p) ==
  LET e1 == EnemyAI(e, dt, p)
  IN [e1 EXCEPT !.hit_flash = Tick(@, dt), !.animation_lock = Tick(@, dt)]

\* Enemy.apply_knockback
ApplyKnockback(e, amount, direction) ==
  LET x1 == e.rect.x + Trunc(direction * amount, 2)
  IN [e EXCEPT !.rect.x = Max(WIDTH \div 2, Min(x1, WIDTH - 80))]

\* Enemy.damage without the change of state of line 711
EnemyDamageKeepsState(e, amount, knockback, direction) ==
  LET e1 == [e EXCEPT !.health = Max(0, @ - amount), !.hit_flash = 250]
  IN [ApplyKnockback(e1, knockback, direction) EXCEPT !.animation_lock = 300]

\* Enemy.damage
EnemyDamage(e, amount, knockback, direction) ==
  LET e1 == [e EXCEPT !.health = Max(0, @ - amount), !.hit_flash = 250]
      e2 == ChangeState(ApplyKnockback(e1, knockback, direction),
                        "STUNNED", 500)
  IN [e2 EXCEPT !.animation_lock = 300]

\* Enemy.parried sending the enemy to Recover instead of Stunned
ParriedToRecover(e) ==
  LET e1 == ChangeState([e EXCEPT !.attack_rect = NoRect], "RECOVER", 750)
  IN [e1 EXCEPT !.hit_flash = 300, !.animation_lock = 400]

\* Enemy.parried
Parried(e) ==
  LET e1 == ChangeState([e EXCEPT !.attack_rect = NoRect], "STUNNED", 750)
  IN [e1 EXCEPT !.hit_flash = 300, !.animation_lock = 400]

\* set_learning_tuning cutting a windup in progress down to the new duration
SetLearningTuningRetimes(e, speed_bias, windup_bias) ==
  LET duration == Max(220, (350 * windup_bias) \div 1000)
  IN [e EXCEPT !.chase_speed = 200 * speed_bias,
               !.windup_duration = duration,
               !.state_timer = IF e.state = "WINDUP" THEN Min(@, duration) ELSE @]

\* Enemy.set_learning_tuning; both biases in thousandths
SetLearningTuning(e, speed_bias, windup_bias) ==
  [e EXCEPT !.chase_speed = 200 * speed_bias,
            !.windup_duration = Max(220, (350 * windup_bias) \div 1000)]

\* ------------------------------------------------------------- CombatGame
\* LightningStrike as built by cast_lightning (radius, damage, stun and
\* duration are the same for every strike and are the LIGHTNING_* constants)
Strike(cx, cy) ==
  [cx |-> cx, cy |-> cy, timer |-> LIGHTNING_LIFETIME,
   warmup |-> LIGHTNING_WARMUP, applied |-> FALSE]

\* CombatGame.__init__: the director's own fields
GameInit ==
  [mode |-> "RUNNING",
   trail_segments |-> << >>, trail_spawn_timer |-> 0,
   hit_stop_timer |-> 0,
   shake_timer |-> 0, shake_magnitude |-> 0,
   shake_offset |-> [x |-> 0, y |-> 0],
   parry_feedback_timer |-> 0, parry_feedback_text |-> "",
   time_slow_timer |-> 0, time_slow_cooldown |-> 0,
   lightning_cooldown |-> 0, lightning_effects |-> << >>,
   combo_count |-> 0, combo_timer |-> 0,
   action_memory |-> [light |-> 0, heavy |-> 0, parry |-> 0],
   last_direction_tap |-> [d \in {-1, 1} |-> TAP_SENTINEL]]

\* CombatGame.__init__: the world [p: Player, e: Enemy, g: director fields]
WorldInit ==
  [p |-> PlayerInit(PLAYER_START_X), e |-> EnemyInit(ENEMY_START_X),
   g |-> GameInit]

\* CombatGame._tick_cooldowns
TickCooldowns(g, dt) ==
  [g EXCEPT !.time_slow_timer = Tick(@, dt),
            !.time_slow_cooldown = Tick(@, dt),
            !.lightning_cooldown = Tick(@, dt)]

\* _update_combo_timer without the reset of the count of line 795
UpdateComboTimerKeepsCount(g, dt) ==
  IF g.combo_timer > 0
  THEN [g EXCEPT !.combo_timer = Max(0, g.combo_timer - dt)]
  ELSE g

\* CombatGame._update_combo_timer
UpdateComboTimer(g, dt) ==
  IF g.combo_timer > 0
  THEN LET t == Max(0, g.combo_timer - dt)
       IN [g EXCEPT !.combo_timer = t,
                    !.combo_count = IF t = 0 THEN 0 ELSE @]
  ELSE g

\* CombatGame._decay_action_memory, line 799: weights are in 1/10000
DecayedMemory(m) ==
  [k \in DOMAIN m |-> (m[k] * 985) \div 1000]

\* int(n * 10^digits / d) for 0 <= n < d, by long division, so that no
\* intermediate value exceeds 10 * d
RECURSIVE Quotient(_, _, _)
Quotient(n, d, digits) ==
  IF digits = 0 THEN 0
  ELSE ((10 * n) \div d) * 10 ^ (digits - 1)
         + Quotient((10 * n) % d, d, digits - 1)

\* CombatGame._decay_action_memory, lines 800-803: a ratio in thousandths;
\* the total carries the code's 1e-5 (a tenth of a weight unit)
MemoryRatio(m, k) ==
  Quotient(m[k], 10 * (m.light + m.heavy + m.parry) + 1, 4)

\* the speed bias taken from the share of heavy actions
SpeedBiasOfHeavy(m) == 1000 + (Max(0, MemoryRatio(m, "heavy") - 300) * 6) \div 10

\* CombatGame._decay_action_memory, line 804 (thousandths)
SpeedBias(m) == 1000 + (Max(0, MemoryRatio(m, "light") - 300) * 6) \div 10

\* CombatGame._decay_action_memory, lines 805-806 (thousandths)
WindupBias(m) ==
  Let([raw \in {1000 - (Max(0, MemoryRatio(m, "heavy") - 250) * 4) \div 10
                      + (Max(0, MemoryRatio(m, "parry") - 200) * 5) \div 10}
         |-> Max(650, Min(1400, raw))])

\* CombatGame._decay_action_memory
DecayActionMemory(w) ==
  Let([m \in {DecayedMemory(w.g.action_memory)} |->
  Let([speed_bias \in {SpeedBias(m)} |->
  Let([windup_bias \in {WindupBias(m)} |->
    [w EXCEPT !.g.action_memory = m,
              !.e = SetLearningTuning(@, speed_bias, windup_bias)]])])])

\* CombatGame._register_combo
RegisterCombo(g, heavy) ==
  [g EXCEPT !.combo_count = @ + 1,
            !.combo_timer = COMBO_RESET_TIME
                              + (IF heavy THEN COMBO_HEAVY_EXTRA ELSE 0)]

\* _calculate_combo_damage counting the hit that is landing
CalculateComboDamageCounted(g, base_damage) ==
  LET multiplier == 100 + COMBO_DAMAGE_SCALE * (Max(0, g.combo_count) + 1)
                        + (IF g.time_slow_timer > 0
                             THEN TIME_SLOW_DAMAGE_BONUS ELSE 0)
  IN (base_damage * multiplier) \div 100

\* CombatGame._calculate_combo_damage: int(base * multiplier), the
\* multiplier in hundredths
CalculateComboDamage(g, base_damage) ==
  LET multiplier == 100 + COMBO_DAMAGE_SCALE * Max(0, g.combo_count)
                        + (IF g.time_slow_timer > 0
                             THEN TIME_SLOW_DAMAGE_BONUS ELSE 0)
  IN (base_damage * multiplier) \div 100

\* CombatGame._record_player_action
RecordPlayerAction(g, action) ==
  IF action \notin DOMAIN g.action_memory THEN g
  ELSE [g EXCEPT !.action_memory =
          [k \in DOMAIN @ |-> IF k = action THEN @[k] + 10000
                              ELSE (@[k] * 92) \div 100]]

\* CombatGame._trigger_hit_effects
TriggerHitEffects(g, heavy) ==
  [g EXCEPT !.hit_stop_timer = IF heavy THEN HIT_STOP_HEAVY ELSE HIT_STOP_LIGHT,
            !.shake_timer = 350,
            !.shake_magnitude = IF heavy THEN 10 ELSE 6]

\* CombatGame._set_feedback
SetFeedback(g, text) ==
  [g EXCEPT !.parry_feedback_text = text, !.parry_feedback_timer = 600]

\* CombatGame._update_feedback
UpdateFeedback(g, dt) ==
  IF g.parry_feedback_timer > 0
  THEN LET t == Max(0, g.parry_feedback_timer - dt)
       IN [g EXCEPT !.parry_feedback_timer = t,
                    !.parry_feedback_text = IF t = 0 THEN "" ELSE @]
  ELSE g

\* CombatGame._update_shake; roll.x, roll.y stand for the two
\* random.uniform draws as a fraction (in {-1, 1}) of the magnitude;
\* the offset is in thousandths of a pixel
UpdateShake(g, dt, roll) ==
  IF g.shake_timer > 0
  THEN LET t == Max(0, g.shake_timer - dt)
           magnitude == (g.shake_magnitude * t * 1000) \div 350
       IN [g EXCEPT !.shake_timer = t,
                    !.shake_offset = [x |-> roll.x * magnitude,
                                      y |-> roll.y * ((magnitude * 6) \div 10)]]
  ELSE [g EXCEPT !.shake_offset = [x |-> 0, y |-> 0]]

\* CombatGame._update_trails: the remaining life of each segment
UpdateTrails(g, dt) ==
  [g EXCEPT !.trail_segments =
     SelectSeq([i \in DOMAIN @ |-> @[i] - dt], LAMBDA life : life > 0)]

\* CombatGame.update, lines 934-942: trail spawning
SpawnTrails(w, dt) ==
  LET g1 == [w.g EXCEPT !.trail_spawn_timer = Tick(@, dt)]
  IN IF Truthy(w.p.attack_hitbox) /\ w.p.current_attack /= NoAttack
        /\ g1.trail_spawn_timer = 0
       THEN [w EXCEPT !.g = [g1 EXCEPT !.trail_segments = Append(@, 250),
                                       !.trail_spawn_timer = 50]]
       ELSE [w EXCEPT !.g = g1]

\* CombatGame._update_lightning, line 838: distance_to(center) <= radius
InStrikeRange(e, strike) ==
  LET dx == CenterX(e.rect) - strike.cx
      dy == CenterY(e.rect) - strike.cy
  IN dx * dx + dy * dy <= LIGHTNING_RADIUS * LIGHTNING_RADIUS

\* CombatGame._update_lightning, lines 839-845: a strike connects
StrikeHit(w) ==
  LET damage == CalculateComboDamage(w.g, LIGHTNING_DAMAGE)
      e1 == EnemyDamage(w.e, damage, LIGHTNING_KNOCKBACK, -w.e.facing)
  IN [w EXCEPT !.e = ChangeState(e1, "STUNNED", LIGHTNING_STUN),
               !.p = GainMythEnergy(@, MYTH_ENERGY_HEAVY_BONUS
                                         + w.g.combo_count * 20),
               !.g = RegisterCombo(TriggerHitEffects(@, TRUE), TRUE)]

\* CombatGame._update_lightning, line 836: the strike resolves this frame
StrikeResolves(strike, dt) ==
  ~strike.applied /\ Tick(strike.warmup, dt) = 0

\* one strike's timers, the lifetime waiting for the warmup to run out
StrikeStepWarmupFirst(strike, dt) ==
  [strike EXCEPT !.timer = IF strike.warmup > 0 THEN @ ELSE Max(0, @ - dt),
                 !.warmup = Tick(@, dt),
                 !.applied = @ \/ StrikeResolves(strike, dt)]

\* one strike's timers without setting its applied flag
StrikeStepUnmarked(strike, dt) ==
  [strike EXCEPT !.timer = Max(0, @ - dt),
                 !.warmup = Tick(@, dt)]

\* CombatGame._update_lightning, lines 833-846: one strike's timers and flag
StrikeStep(strike, dt) ==
  [strike EXCEPT !.timer = Max(0, @ - dt),
                 !.warmup = Tick(@, dt),
                 !.applied = @ \/ StrikeResolves(strike, dt)]

\* CombatGame._update_lightning, the loop from strike i on; acc is
\* [w: the world so far, alive: the strikes kept, hits: strikes that connected]
RECURSIVE LightningLoop(_, _, _, _)
LightningLoop(acc, strikes, i, dt) ==
  IF i > Len(strikes) THEN acc
  ELSE LET s == strikes[i]
           hit == StrikeResolves(s, dt) /\ InStrikeRange(acc.w.e, s)
           s1 == StrikeStep(s, dt)
           w1 == IF hit THEN StrikeHit(acc.w) ELSE acc.w
       IN LightningLoop(
            [w |-> w1,
             alive |-> IF s1.timer > 0 THEN Append(acc.alive, s1) ELSE acc.alive,
             hits |-> acc.hits + (IF hit THEN 1 ELSE 0)],
            strikes, i + 1, dt)

\* CombatGame._update_lightning: [w: the world after, hits: strikes connected]
UpdateLightning(w, dt) ==
  LET r == LightningLoop([w |-> w, alive |-> << >>, hits |-> 0],
                         w.g.lightning_effects, 1, dt)
  IN [w |-> [r.w EXCEPT !.g.lightning_effects = r.alive], hits |-> r.hits]

\* CombatGame.activate_time_slow: TRUE when no early return is taken
CanActivateTimeSlow(w) ==
  /\ w.g.mode = "RUNNING"
  /\ ~(w.g.time_slow_timer > 0 \/ w.g.time_slow_cooldown > 0)
  /\ CanSpendMyth(w.p, TIME_SLOW_COST)

\* activate_time_slow with the cooldown left out of the test of line 854
ActivateTimeSlowNoCooldown(w) ==
  IF w.g.mode /= "RUNNING" THEN w
  ELSE IF w.g.time_slow_timer > 0 THEN w
  ELSE IF ~CanSpendMyth(w.p, TIME_SLOW_COST)
    THEN [w EXCEPT !.g = SetFeedback(@, "NEED MYTH")]
  ELSE [w EXCEPT
          !.p = [SpendMythEnergy(@, TIME_SLOW_COST) EXCEPT
                   !.cast_flash = 450, !.animation_lock = 400],
          !.g = SetFeedback([@ EXCEPT !.time_slow_timer = TIME_SLOW_DURATION,
                                      !.time_slow_cooldown = TIME_SLOW_COOLDOWN],
                            "TIME FRACTURED")]

\* CombatGame.activate_time_slow
ActivateTimeSlow(w) ==
  IF w.g.mode /= "RUNNING" THEN w
  ELSE IF w.g.time_slow_timer > 0 \/ w.g.time_slow_cooldown > 0 THEN w
  ELSE IF ~CanSpendMyth(w.p, TIME_SLOW_COST)
    THEN [w EXCEPT !.g = SetFeedback(@, "NEED MYTH")]
  ELSE [w EXCEPT
          !.p = [SpendMythEnergy(@, TIME_SLOW_COST) EXCEPT
                   !.cast_flash = 450, !.animation_lock = 400],
          !.g = SetFeedback([@ EXCEPT !.time_slow_timer = TIME_SLOW_DURATION,
                                      !.time_slow_cooldown = TIME_SLOW_COOLDOWN],
                            "TIME FRACTURED")]

\* CombatGame.cast_lightning: TRUE when no early return is taken
CanCastLightning(w) ==
  /\ w.g.mode = "RUNNING"
  /\ ~(w.g.lightning_cooldown > 0)
  /\ CanSpendMyth(w.p, LIGHTNING_COST)

\* cast_lightning starting a cooldown that is shorter than the strike's life
CastLightningBriefCooldown(w) ==
  IF w.g.mode /= "RUNNING" THEN w
  ELSE IF w.g.lightning_cooldown > 0 THEN w
  ELSE IF ~CanSpendMyth(w.p, LIGHTNING_COST)
    THEN [w EXCEPT !.g = SetFeedback(@, "NEED MYTH")]
  ELSE LET strike == Strike(CenterX(w.e.rect), Bottom(w.e.rect) - 30)
           g1 == [w.g EXCEPT !.lightning_effects = Append(@, strike),
                             !.lightning_cooldown = LIGHTNING_WARMUP]
       IN [w EXCEPT
             !.p = [SpendMythEnergy(@, LIGHTNING_COST) EXCEPT
                      !.cast_flash = 350, !.animation_lock = 300],
             !.g = RecordPlayerAction(SetFeedback(g1, "ASCENDENT STRIKE"),
                                      "heavy")]

\* CombatGame.cast_lightning
CastLightning(w) ==
  IF w.g.mode /= "RUNNING" THEN w
  ELSE IF w.g.lightning_cooldown > 0 THEN w
  ELSE IF ~CanSpendMyth(w.p, LIGHTNING_COST)
    THEN [w EXCEPT !.g = SetFeedback(@, "NEED MYTH")]
  ELSE LET strike == Strike(CenterX(w.e.rect), Bottom(w.e.rect) - 30)
           g1 == [w.g EXCEPT !.lightning_effects = Append(@, strike),
                             !.lightning_cooldown = LIGHTNING_COOLDOWN]
       IN [w EXCEPT
             !.p = [SpendMythEnergy(@, LIGHTNING_COST) EXCEPT
                      !.cast_flash = 350, !.animation_lock = 300],
             !.g = RecordPlayerAction(SetFeedback(g1, "ASCENDENT STRIKE"),
                                      "heavy")]

\* CombatGame.try_void_shift: TRUE when the dash is carried out
DashFires(w) ==
  /\ w.g.mode = "RUNNING"
  /\ ~(w.p.void_shift_cooldown > 0)
  /\ ~(w.p.myth_energy < VOID_SHIFT_COST)
  /\ CanVoidShift(w.p)

\* CombatGame.try_void_shift
TryVoidShift(w, direction) ==
  IF w.g.mode /= "RUNNING" THEN w
  ELSE IF w.p.void_shift_cooldown > 0 THEN w
  ELSE IF w.p.myth_energy < VOID_SHIFT_COST
    THEN [w EXCEPT !.g = SetFeedback(@, "NEED MYTH")]
  ELSE IF CanVoidShift(w.p)
    THEN [w EXCEPT !.p = VoidShift(@, direction),
                   !.g = [@ EXCEPT !.shake_timer = 200, !.shake_magnitude = 8]]
  ELSE w

\* handle_direction_tap, lines 908-910, for ticks that are multiples of 20 up
\* to 4000: the earlier press times `last` (ms) for which the binary64
\* difference (last + 280) / 1000.0 - last / 1000.0 exceeds the literal 0.28
RoundsAboveWindow ==
  {820, 840, 1880, 1900, 1920, 1940, 1960, 2260, 2280, 2300, 2320, 2340,
   2360, 2380, 2400, 2420, 2440, 2460, 2760, 2780, 2800, 2820, 2840, 2860,
   2880, 2900, 2920, 2940, 2960, 3260, 3280, 3300, 3320, 3340, 3360, 3380,
   3400, 3420, 3440, 3460, 3760, 3800, 3840, 3880, 3920, 3960, 4000}

\* handle_direction_tap, line 910: now - last <= VOID_SHIFT_DOUBLE_TAP, with
\* now = get_ticks() / 1000.0 and last either such a value or -999.0
WithinDoubleTap(now, last) ==
  \/ now - last < VOID_SHIFT_DOUBLE_TAP
  \/ now - last = VOID_SHIFT_DOUBLE_TAP /\ last \notin RoundsAboveWindow

\* CombatGame.handle_direction_tap without the mode test of lines 905-906
HandleDirectionTapUngated(w, direction, now) ==
  IF WithinDoubleTap(now, w.g.last_direction_tap[direction])
    THEN [TryVoidShift(w, direction) EXCEPT
            !.g.last_direction_tap[direction] = TAP_SENTINEL]
  ELSE [w EXCEPT !.g.last_direction_tap[direction] = now]

\* CombatGame.handle_direction_tap; now is pygame.time.get_ticks()
HandleDirectionTap(w, direction, now) ==
  IF w.g.mode /= "RUNNING" THEN w
  ELSE IF WithinDoubleTap(now, w.g.last_direction_tap[direction])
    THEN [TryVoidShift(w, direction) EXCEPT
            !.g.last_direction_tap[direction] = TAP_SENTINEL]
  ELSE [w EXCEPT !.g.last_direction_tap[direction] = now]

\* CombatGame.update, lines 952-957: the player's swing connects this frame
PlayerHitConnects(w) ==
  /\ Truthy(w.p.attack_hitbox)
  /\ w.p.current_attack /= NoAttack
  /\ ~w.p.attack_has_connected
  /\ CollideRect(w.e.rect, w.p.attack_hitbox)

\* CombatGame.update, lines 958-962: the damage of a connecting swing
PlayerHitDamage(w) ==
  LET damage == CalculateComboDamage(w.g, w.p.current_attack.damage)
  IN IF w.e.state = "STUNNED" THEN (damage * 125) \div 100 ELSE damage

\* the player's hit applied without marking the swing as connected
PlayerHitUnmarked(w) ==
  LET attack == w.p.current_attack
      heavy == attack = HEAVY_ATTACK
      knockback == IF w.e.state = "STUNNED"
                     THEN (attack.knockback * 12) \div 10 ELSE attack.knockback
      g1 == RegisterCombo(TriggerHitEffects(w.g, heavy), heavy)
      gain == MYTH_ENERGY_HIT_GAIN
                + (IF heavy THEN MYTH_ENERGY_HEAVY_BONUS ELSE 0)
  IN [w EXCEPT
        !.e = EnemyDamage(@, PlayerHitDamage(w), knockback, w.p.facing),
        !.p = GainMythEnergy(@, gain + g1.combo_count * 12),
        !.g = RecordPlayerAction(g1, attack.name)]

\* CombatGame.update, lines 958-972: the player's hit is applied
PlayerHit(w) ==
  LET attack == w.p.current_attack
      heavy == attack = HEAVY_ATTACK
      knockback == IF w.e.state = "STUNNED"
                     THEN (attack.knockback * 12) \div 10 ELSE attack.knockback
      g1 == RegisterCombo(TriggerHitEffects(w.g, heavy), heavy)
      gain == MYTH_ENERGY_HIT_GAIN
                + (IF heavy THEN MYTH_ENERGY_HEAVY_BONUS ELSE 0)
  IN [w EXCEPT
        !.e = EnemyDamage(@, PlayerHitDamage(w), knockback, w.p.facing),
        !.p = GainMythEnergy([@ EXCEPT !.attack_has_connected = TRUE],
                             gain + g1.combo_count * 12),
        !.g = RecordPlayerAction(g1, attack.name)]

\* CombatGame.update, lines 975-976: the enemy's attack hitbox is on the player
EnemyAttackOverlaps(w) ==
  /\ Truthy(w.e.attack_rect)
  /\ w.e.state = "ATTACK"
  /\ CollideRect(w.e.attack_rect, w.p.rect)

\* CombatGame.update, lines 975-993: which branch the enemy's attack takes
EnemyHitOutcome(w) ==
  IF ~EnemyAttackOverlaps(w) THEN "none"
  ELSE IF IsInvulnerable(w.p) THEN "invulnerable"
  ELSE IF w.p.parry_timer > 0 THEN "parry"
  ELSE "damage"

\* a successful parry that ends the combo as a blow taken does
ParrySuccessEndsCombo(w) ==
  [w EXCEPT
     !.p = GainMythEnergy(HealStamina(RegisterParrySuccess(@), PARRY_REFUND),
                          MYTH_ENERGY_PARRY_GAIN),
     !.e = Parried(@),
     !.g = [RecordPlayerAction(@, "parry") EXCEPT
              !.combo_count = 0, !.combo_timer = 0]]

\* CombatGame.update, lines 980-985: a successful parry
ParrySuccess(w) ==
  [w EXCEPT
     !.p = GainMythEnergy(HealStamina(RegisterParrySuccess(@), PARRY_REFUND),
                          MYTH_ENERGY_PARRY_GAIN),
     !.e = Parried(@),
     !.g = RecordPlayerAction(@, "parry")]

\* the enemy's attack landing without the change of state of line 988
EnemyHitLandsStaysInAttack(w) ==
  [w EXCEPT
     !.p = PlayerDamage(@, ENEMY_ATTACK_DAMAGE),
     !.g = [SetFeedback(TriggerHitEffects(@, FALSE), "BREAK") EXCEPT
              !.combo_count = 0, !.combo_timer = 0]]

\* the enemy's attack landing without the combo reset of lines 992-993
EnemyHitLandsKeepsCombo(w) ==
  [w EXCEPT
     !.p = PlayerDamage(@, ENEMY_ATTACK_DAMAGE),
     !.e = ChangeState(@, "RECOVER", 800),
     !.g = SetFeedback(TriggerHitEffects(@, FALSE), "BREAK")]

\* CombatGame.update, lines 987-993: the enemy's attack lands
EnemyHitLands(w) ==
  [w EXCEPT
     !.p = PlayerDamage(@, ENEMY_ATTACK_DAMAGE),
     !.e = ChangeState(@, "RECOVER", 800),
     !.g = [SetFeedback(TriggerHitEffects(@, FALSE), "BREAK") EXCEPT
              !.combo_count = 0, !.combo_timer = 0]]

\* the hit resolution with the parry tested before the invulnerability
ResolveEnemyHitParryFirst(w) ==
  IF ~EnemyAttackOverlaps(w) THEN w
  ELSE IF w.p.parry_timer > 0 THEN ParrySuccess(w)
  ELSE IF IsInvulnerable(w.p) THEN w
  ELSE EnemyHitLands(w)

\* CombatGame.update, lines 974-993: enemy attack vs player
ResolveEnemyHit(w) ==
  CASE EnemyHitOutcome(w) = "parry" -> ParrySuccess(w)
    [] EnemyHitOutcome(w) = "damage" -> EnemyHitLands(w)
    [] OTHER -> w

\* CombatGame.update, lines 995-999, with Player.consume_feedback
ConsumeFeedback(w) ==
  LET feedback == w.p.pending_feedback
      g1 == IF feedback = "success" THEN SetFeedback(w.g, "PARRY!")
            ELSE IF feedback = "fail" THEN SetFeedback(w.g, "MISS")
            ELSE w.g
  IN [w EXCEPT !.p.pending_feedback = "none", !.g = g1]

\* the terminal check without the test of the player's health
TerminalCheckVictoryOnly(w) ==
  IF w.e.health <= 0 THEN [w EXCEPT !.g.mode = "VICTORY"] ELSE w

\* the terminal check without the test of the enemy's health
TerminalCheckDefeatOnly(w) ==
  IF w.p.health <= 0 THEN [w EXCEPT !.g.mode = "DEFEAT"] ELSE w

\* CombatGame.update, lines 1001-1004: the terminal check
TerminalCheck(w) ==
  IF w.p.health <= 0 THEN [w EXCEPT !.g.mode = "DEFEAT"]
  ELSE IF w.e.health <= 0 THEN [w EXCEPT !.g.mode = "VICTORY"]
  ELSE w

\* CombatGame.update, lines 921-925: the dt both actors' updates are based on
EffectiveDt(g, dt) == IF g.hit_stop_timer > 0 THEN 0 ELSE dt

\* the enemy's dt without the slow factor
EnemyDtUnscaled(g, effective_dt) == effective_dt

\* CombatGame.update, lines 927-929: the dt the enemy's update receives
EnemyDt(g, effective_dt) ==
  IF g.time_slow_timer > 0
    THEN (effective_dt * TIME_SLOW_FACTOR) \div 100 ELSE effective_dt

\* CombatGame.update, line 922, with the timer left as it is
HitStopHeld(g, dt) == g.hit_stop_timer

\* CombatGame.update, line 922: the hit-stop timer after the frame
HitStopAfter(g, dt) == Tick(g.hit_stop_timer, dt)

\* CombatGame.update for a running game, lines 919-1004.  The result is
\* [w: the world after the frame, obs: what the frame did], obs being
\* the branches taken, for the properties to refer to.
Frame(w, dt, keys, roll) ==
  Let([p1 \in {HandleInput(w.p, keys)} |->
  Let([g1 \in {TickCooldowns(w.g, dt)} |->
  Let([effective_dt \in {EffectiveDt(g1, dt)} |->
  Let([g2 \in {[g1 EXCEPT !.hit_stop_timer = HitStopAfter(g1, dt)]} |->
  Let([enemy_dt \in {EnemyDt(g2, effective_dt)} |->
  Let([p2 \in {PlayerUpdate(p1, effective_dt)} |->
  Let([e2 \in {EnemyUpdate(w.e, enemy_dt, p2)} |->
  Let([w3 \in {SpawnTrails([p |-> p2, e |-> e2, g |-> g2], dt)} |->
  Let([g3 \in {UpdateTrails(w3.g, dt)} |->
  Let([g4 \in {UpdateFeedback(UpdateShake(g3, dt, roll), dt)} |->
  Let([l5 \in {UpdateLightning([w3 EXCEPT !.g = g4], dt)} |->
  Let([g5 \in {UpdateComboTimer(l5.w.g, dt)} |->
  Let([w6 \in {DecayActionMemory([l5.w EXCEPT !.g = g5])} |->
  Let([player_hit \in {PlayerHitConnects(w6)} |->
  Let([w7 \in {IF player_hit THEN PlayerHit(w6) ELSE w6} |->
  Let([enemy_hit \in {EnemyHitOutcome(w7)} |->
  Let([w8 \in {ResolveEnemyHit(w7)} |->
  Let([w9 \in {TerminalCheck(ConsumeFeedback(w8))} |->
    [w |-> w9,
     obs |-> [op |-> "update", dt |-> dt,
              effective_dt |-> effective_dt, enemy_dt |-> enemy_dt,
              strike_hits |-> l5.hits,
              player_hit |-> player_hit,
              hit_damage |-> IF player_hit THEN PlayerHitDamage(w6) ELSE 0,
              hit_combo |-> IF player_hit THEN w6.g.combo_count ELSE 0,
              hit_stunned |-> player_hit /\ w6.e.state = "STUNNED",
              enemy_hit |-> enemy_hit,
              feedback |-> w8.p.pending_feedback,
              combo_lost |-> IF enemy_hit = "damage"
                               THEN w7.g.combo_count ELSE 0,
              enemy_on_player |-> EnemyAttackOverlaps(w6)]]
  ])])])])])])])])])])])])])])])])])])

\* ------------------------------------------------------------------ state
VARIABLES
  player,      \* CombatGame.player
  enemy,       \* CombatGame.enemy
  game,        \* the other fields of CombatGame
  ticks,       \* pygame.time.get_ticks(), ms
  scn,         \* the kind of play explored (which inputs the player gives)
  swing_hits,  \* frames in which the swing last triggered has connected
  last         \* what the last step did (the branches it took)

vars == <<player, enemy, game, ticks, scn, swing_hits, last>>

World == [p |-> player, e |-> enemy, g |-> game]

\* what a step that is not a frame records: the key, its argument, whether
\* the press had its effect, and whether it was refused for want of the cost
EventObs(op, arg, accepted, short) ==
  [op |-> op, arg |-> arg, accepted |-> accepted, short |-> short, dt |-> 0,
   effective_dt |-> 0, enemy_dt |-> 0, strike_hits |-> 0,
   player_hit |-> FALSE, hit_damage |-> 0, hit_combo |-> 0,
   hit_stunned |-> FALSE, enemy_hit |-> "none", feedback |-> "none",
   combo_lost |-> 0, enemy_on_player |-> FALSE]

\* what a frame records
FrameObs(obs, running) ==
  [op |-> "update", arg |-> 0, accepted |-> running, short |-> FALSE,
   dt |-> obs.dt,
   effective_dt |-> obs.effective_dt, enemy_dt |-> obs.enemy_dt,
   strike_hits |-> obs.strike_hits, player_hit |-> obs.player_hit,
   hit_damage |-> obs.hit_damage, hit_combo |-> obs.hit_combo,
   hit_stunned |-> obs.hit_stunned, enemy_hit |-> obs.enemy_hit,
   feedback |-> obs.feedback,
   combo_lost |-> obs.combo_lost, enemy_on_player |-> obs.enemy_on_player]

\* the two random.uniform draws of _update_shake, as fractions of the
\* magnitude
NoRoll == [x |-> 1, y |-> 1]
RollSet == {[x |-> 1, y |-> 1], [x |-> -1, y |-> 1], [x |-> 0, y |-> -1]}

SetWorld(w) ==
  /\ player' = w.p
  /\ enemy' = w.e
  /\ game' = w.g

\* CombatGame.__init__ as called by main, line 1282, for the kind of play k
InitFor(k) ==
  /\ player = WorldInit.p
  /\ enemy = WorldInit.e
  /\ game = WorldInit.g
  /\ ticks = 0
  /\ scn = k
  /\ swing_hits = 0
  /\ last = EventObs("init", 0, TRUE, FALSE)

\* CombatGame.update as main calls it, line 1313: a no-op unless the game
\* is running (lines 917-918)
GameUpdate(dt, keys, roll) ==
  IF game.mode = "RUNNING"
    THEN \E f \in {Frame(World, dt, keys, roll)} :
            /\ SetWorld(f.w)
            /\ last' = FrameObs(f.obs, TRUE)
            /\ swing_hits' = swing_hits + (IF f.obs.player_hit THEN 1 ELSE 0)
    ELSE /\ UNCHANGED <<player, enemy, game, swing_hits>>
         /\ last' = EventObs("update", 0, FALSE, FALSE)

\* main, lines 1286-1287 and 1313: one frame, game.update(dt, keys); the
\* frame ends no later than `horizon` tenths of a second
Update(dt, keys, roll, horizon) ==
  /\ ticks + dt <= horizon * 100
  /\ ticks' = ticks + dt
  /\ UNCHANGED scn
  /\ GameUpdate(dt, keys, roll)

\* one frame of a play that makes no use of handle_direction_tap, the only
\* reader of pygame.time.get_ticks(): the clock is left out, so that the
\* play goes on for as long as it takes
UpdateUntimed(dt, keys, roll) ==
  /\ UNCHANGED <<ticks, scn>>
  /\ GameUpdate(dt, keys, roll)

\* main, lines 1295-1299: K_1 / K_2
PressAttack(attack) ==
  /\ game.mode = "RUNNING"
  /\ player' = TriggerAttack(player, attack)
  /\ last' = EventObs(attack.name, 0, CanTriggerAttack(player, attack),
                      /\ ~(player.attack_timer > 0 \/ player.attack_cooldown > 0)
                      /\ player.stamina < attack.stamina_cost)
  /\ swing_hits' = IF CanTriggerAttack(player, attack) THEN 0 ELSE swing_hits
  /\ UNCHANGED <<enemy, game, ticks, scn>>

\* main, lines 1295-1297: K_1
LightAttack == PressAttack(LIGHT_ATTACK)

\* main, lines 1298-1299: K_2
HeavyAttack == PressAttack(HEAVY_ATTACK)

\* main, lines 1300-1301: K_f
Parry ==
  /\ game.mode = "RUNNING"
  /\ player' = PlayerParry(player)
  /\ last' = EventObs("parry", 0, CanParry(player),
                      /\ ~(player.parry_timer > 0 \/ player.parry_cooldown > 0)
                      /\ player.stamina < PARRY_COST)
  /\ UNCHANGED <<enemy, game, ticks, scn, swing_hits>>

\* main, lines 1302-1303: K_x
TimeSlow ==
  /\ game.mode = "RUNNING"
  /\ SetWorld(ActivateTimeSlow(World))
  /\ last' = EventObs("time_slow", 0, CanActivateTimeSlow(World),
                      /\ ~(game.time_slow_timer > 0 \/ game.time_slow_cooldown > 0)
                      /\ player.myth_energy < TIME_SLOW_COST)
  /\ UNCHANGED <<ticks, scn, swing_hits>>

\* main, lines 1304-1305: K_c
Lightning ==
  /\ game.mode = "RUNNING"
  /\ SetWorld(CastLightning(World))
  /\ last' = EventObs("lightning", 0, CanCastLightning(World),
                      /\ ~(game.lightning_cooldown > 0)
                      /\ player.myth_energy < LIGHTNING_COST)
  /\ UNCHANGED <<ticks, scn, swing_hits>>

\* main, lines 1306-1309: K_a / K_d
DirectionTap(direction) ==
  /\ game.mode = "RUNNING"
  /\ SetWorld(HandleDirectionTap(World, direction, ticks))
  /\ last' = EventObs("tap", direction,
                      /\ WithinDoubleTap(ticks, game.last_direction_tap[direction])
                      /\ DashFires(World),
                      /\ WithinDoubleTap(ticks, game.last_direction_tap[direction])
                      /\ ~(player.void_shift_cooldown > 0)
                      /\ player.myth_energy < VOID_SHIFT_COST)
  /\ UNCHANGED <<ticks, scn, swing_hits>>

\* main, lines 1310-1311 and CombatGame.reset: K_r
Reset ==
  /\ SetWorld(WorldInit)
  /\ last' = EventObs("reset", 0, TRUE, FALSE)
  /\ swing_hits' = 0
  /\ UNCHANGED <<ticks, scn>>

\* CombatGame._record_player_action("light"), as line 972 calls it; arg
\* counts the actions recorded
RecordLight ==
  /\ game' = RecordPlayerAction(game, "light")
  /\ last' = EventObs("record", last.arg + 1, TRUE, FALSE)
  /\ UNCHANGED <<player, enemy, ticks, scn, swing_hits>>

\* CombatGame._decay_action_memory, as line 949 calls it once a frame
DecayMemory ==
  /\ ticks + 20 <= BiasTime * 100
  /\ ticks' = ticks + 20
  /\ SetWorld(DecayActionMemory(World))
  /\ last' = EventObs("decay", last.arg, TRUE, FALSE)
  /\ UNCHANGED <<scn, swing_hits>>

\* ---------------------------------------------------------- specifications
\* Each kind of play fixes the frame time, the keys held in a frame and the
\* key-down events the player gives.
KeysNone == Keys(FALSE, FALSE, FALSE, FALSE)
KeysRight == Keys(FALSE, TRUE, FALSE, FALSE)
KeysLeft == Keys(TRUE, FALSE, FALSE, FALSE)

\* no attack or cooldown is running / no parry or parry cooldown is running
AttackReady == ~(player.attack_timer > 0 \/ player.attack_cooldown > 0)
ParryReady == ~(player.parry_timer > 0 \/ player.parry_cooldown > 0)

\* the enemy has noticed the player / has committed to an attack / has not
\* been hit yet; the player stands almost on the enemy (centres no more
\* than 20 px apart)
Engaged == enemy.state /= "PATROL"
Committed == enemy.state \in {"WINDUP", "ATTACK"}
Unhurt == enemy.health = ENEMY_MAX_HEALTH
Close == CenterX(enemy.rect) - CenterX(player.rect) <= 20

\* the player closes in while the enemy patrols or chases and stands still
\* once it has committed to an attack
MeleeKeys == IF enemy.state \in {"PATROL", "CHASE"} THEN KeysRight ELSE KeysNone
\* the player walks right until they stand almost on the enemy
BrawlKeys == IF Close THEN KeysNone ELSE KeysRight
\* the player walks right until the enemy notices them
AutoKeys == IF enemy.state = "PATROL" THEN KeysRight ELSE KeysNone

\* The kinds of play of Spec:
\*   stamina  the player stands still and spends stamina, pressing a key
\*            only when its timers are clear (light only when unaffordable);
\*   cast     the player stands still and uses the three abilities;
\*   swing    the player stands still and swings, 50 frames a second;
\*   melee    the player closes in and, once the enemy has noticed them,
\*            swings or parries whenever the press is accepted;
\*   evade    the player closes in; once the enemy has committed they stand
\*            or step back, double-tap right and parry;
\*   brawl    the player walks onto the enemy, then stands and swings, 50
\*            frames a second (the enemy stays inside the light hitbox
\*            after its knockback);
\*   trade    the player closes in and swings until a swing has connected,
\*            then lets the enemy come back at them;
\*   mash     the player stands still and presses the attack keys at any
\*            time, whether or not a swing or its cooldown is running.
Plays ==
  {"stamina", "cast", "swing", "melee", "evade", "brawl", "trade", "mash"}

\* the frame time of the play, ms
FrameTime == IF scn \in {"swing", "brawl"} THEN 20 ELSE 100

\* the horizon of the play
Horizon ==
  CASE scn = "stamina" -> StaminaTime
    [] scn = "cast" -> CastTime
    [] scn = "swing" -> SwingTime
    [] scn = "melee" -> MeleeTime
    [] scn = "evade" -> EvadeTime
    [] scn = "brawl" -> BrawlTime
    [] scn = "trade" -> TradeTime
    [] scn = "mash" -> MashTime

\* the key snapshots the play may hold in the next frame
HeldKeys ==
  CASE scn \in {"stamina", "cast", "swing", "mash"} -> {KeysNone}
    [] scn \in {"melee", "trade"} -> {MeleeKeys}
    [] scn = "evade" -> {MeleeKeys} \cup (IF Committed THEN {KeysLeft} ELSE {})
    [] scn = "brawl" -> {BrawlKeys}

\* the play presses the attack key now
MayAttack(attack) ==
  CASE scn = "stamina" ->
         AttackReady /\ (attack = LIGHT_ATTACK => ~CanTriggerAttack(player, attack))
    [] scn = "swing" -> CanTriggerAttack(player, attack)
    [] scn = "melee" -> Engaged /\ CanTriggerAttack(player, attack)
    [] scn = "brawl" -> Close /\ CanTriggerAttack(player, attack)
    [] scn = "trade" -> Engaged /\ Unhurt /\ CanTriggerAttack(player, attack)
    [] scn = "mash" -> TRUE
    [] OTHER -> FALSE

\* the play presses the parry key now
MayParry ==
  CASE scn = "stamina" -> ParryReady
    [] scn = "melee" -> Engaged /\ CanParry(player)
    [] scn = "evade" -> Committed /\ CanParry(player)
    [] OTHER -> FALSE

\* the play presses the right key now
MayTap ==
  CASE scn = "cast" -> TRUE
    [] scn = "evade" -> Committed
    [] OTHER -> FALSE

Init == \E k \in Plays : InitFor(k)

Next ==
  \/ \E keys \in HeldKeys : Update(FrameTime, keys, NoRoll, Horizon)
  \/ MayAttack(LIGHT_ATTACK) /\ LightAttack
  \/ MayAttack(HEAVY_ATTACK) /\ HeavyAttack
  \/ MayParry /\ Parry
  \/ scn = "cast" /\ TimeSlow
  \/ scn = "cast" /\ Lightning
  \/ MayTap /\ DirectionTap(1)

Spec == Init /\ [][Next]_vars

\* Cast play alone.
NextCast ==
  \/ Update(100, KeysNone, NoRoll, CastTime)
  \/ TimeSlow
  \/ Lightning
  \/ DirectionTap(1)

SpecCast == InitFor("cast") /\ [][NextCast]_vars

\* Tap: the player stands still and taps one direction key, left in one
\* kind of play and right in the other, 50 frames a second.
TapDirection == IF scn = "tapleft" THEN -1 ELSE 1

NextTap ==
  \/ Update(20, KeysNone, NoRoll, TapTime)
  \/ DirectionTap(TapDirection)

SpecTap == (InitFor("tapleft") \/ InitFor("tapright")) /\ [][NextTap]_vars

\* Auto: the player walks right until the enemy notices them and gives no
\* input from then on; every frame of a run has the same dt, and the two
\* random draws of a frame are arbitrary.
NextAuto ==
  \E dt \in {20, 100}, roll \in RollSet :
    /\ last.op = "init" \/ last.dt = dt
    /\ Update(dt, AutoKeys, roll, AutoTime)

SpecAuto == InitFor("auto") /\ [][NextAuto]_vars

\* Bias: the histogram alone.  Light actions are recorded in a row on the
\* empty histogram, BiasRecords at most; then every frame decays the
\* histogram and records one more light action (the order of lines 949 and
\* 972 within a frame).
NextBias ==
  \/ /\ \/ ticks = 0 /\ last.arg < BiasRecords
        \/ last.op = "decay"
     /\ RecordLight
  \/ last.op = "record" /\ DecayMemory

SpecBias == InitFor("bias") /\ [][NextBias]_vars

\* Duel: the player closes in and stands once the enemy has committed; at
\* the moment the enemy starts its windup the player presses K_2, presses
\* K_c, presses K_x or waits; at the moment the windup ends they let the
\* attack come or, against a weakened enemy, press K_1.  The fight goes on
\* until one of the two is dead, and K_r starts it again.  main calls game.update once per pass of
\* its loop, for as long as the program runs.
WindupStarts ==
  /\ last.op = "update"
  /\ enemy.state = "WINDUP"
  /\ enemy.state_timer = enemy.windup_duration

AttackStarts ==
  /\ last.op = "update"
  /\ enemy.state = "ATTACK"
  /\ enemy.state_timer = enemy.attack_duration

\* two light hits or fewer would finish the enemy
Weakened == enemy.health <= 2 * LIGHT_ATTACK.damage

\* the frame time of the duel, ms: the frames are short while hit-stop holds
\* the actors, so that a hit-stop spans several frames
DuelFrameTime == IF game.hit_stop_timer > 0 THEN 20 ELSE 100

DuelFrame == UpdateUntimed(DuelFrameTime, MeleeKeys, NoRoll)

NextDuel ==
  \/ DuelFrame
  \/ WindupStarts /\ HeavyAttack
  \/ WindupStarts /\ Lightning
  \/ WindupStarts /\ TimeSlow
  \/ AttackStarts /\ Weakened /\ LightAttack
  \/ game.mode /= "RUNNING" /\ Reset

SpecDuel == InitFor("duel") /\ [][NextDuel]_vars /\ WF_vars(DuelFrame)

\* Move: movement input alone, in two plays.
\*   move   every frame holds any combination of K_a, K_d, K_s and K_w;
\*   cross  every frame holds K_d, with or without K_s, until the player
\*          has crossed the arena and stands at the right wall.
\* In both, either direction key may be double-tapped between two frames
\* (two presses of the one key with no frame between them, any number of
\* times).  The frames are 0.25 s long, so that the arena is crossed within
\* the horizon.
MoveFrameTime == 250

KeysRightCrouch == Keys(FALSE, TRUE, TRUE, FALSE)

MoveKeys ==
  IF scn = "move"
    THEN {Keys(a, d, s, w) : a \in BOOLEAN, d \in BOOLEAN, s \in BOOLEAN, w \in BOOLEAN}
    ELSE {KeysRight, KeysRightCrouch}

MoveHorizon == IF scn = "move" THEN MoveTime ELSE CrossTime

\* the first press of a double tap of this key has been made
TapOpen(direction) == game.last_direction_tap[direction] /= TAP_SENTINEL

NextMove ==
  \/ /\ ~TapOpen(-1) /\ ~TapOpen(1)
     /\ \E keys \in MoveKeys : Update(MoveFrameTime, keys, NoRoll, MoveHorizon)
  \/ \E direction \in {-1, 1} : ~TapOpen(-direction) /\ DirectionTap(direction)

SpecMove == (InitFor("move") \/ InitFor("cross")) /\ [][NextMove]_vars

\* Combo: the player closes in and, at the moment the enemy first starts
\* its windup, presses K_1, K_2 or K_c.  From then on, while the combo runs and
\* the enemy is committed to an attack, the player stands or steps back,
\* parries and double-taps right.
ComboRunning == game.combo_count > 0

ComboKeys == {MeleeKeys} \cup (IF Committed /\ ComboRunning THEN {KeysLeft} ELSE {})

NextCombo ==
  \/ \E keys \in ComboKeys : Update(100, keys, NoRoll, ComboTime)
  \/ WindupStarts /\ Unhurt /\ LightAttack
  \/ WindupStarts /\ Unhurt /\ HeavyAttack
  \/ WindupStarts /\ Unhurt /\ Lightning
  \/ Committed /\ ComboRunning /\ CanParry(player) /\ Parry
  \/ Committed /\ ComboRunning /\ DirectionTap(1)

SpecCombo == InitFor("combo") /\ [][NextCombo]_vars

\* Punish: the duel of a player who never lets a chance go.  The player
\* closes in as in the duel.  At the moment the enemy starts a windup they
\* may press K_x, and they swing; while the enemy is stunned they swing
\* again as soon as a swing is accepted: no frame passes while a swing is
\* due.  Each swing is light or heavy.  The fight goes on until one of the
\* two is dead.
EnemyStunned == enemy.state = "STUNNED"

WindingUp == enemy.state = "WINDUP" /\ enemy.state_timer = enemy.windup_duration

SwingDue ==
  /\ game.mode = "RUNNING"
  /\ WindingUp \/ EnemyStunned
  /\ CanTriggerAttack(player, LIGHT_ATTACK)

NextPunish ==
  \/ ~SwingDue /\ DuelFrame
  \/ SwingDue /\ LightAttack
  \/ SwingDue /\ CanTriggerAttack(player, HEAVY_ATTACK) /\ HeavyAttack
  \/ WindupStarts /\ TimeSlow

SpecPunish == InitFor("punish") /\ [][NextPunish]_vars

\* Guard: the duels of a player who parries, in three plays.  In each the
\* player closes in as in the duel, the fight goes on until one of the two
\* is dead, and K_r starts it again.
\*   early   at the moment the enemy starts a windup the player presses K_f
\*           or waits;
\*   timely  at the moment the windup ends the player presses K_f or waits,
\*           and once a parry has succeeded (the histogram remembers it)
\*           they parry no more;
\*   finish  at the moment the enemy starts a windup the player presses K_2
\*           or K_c or waits, and with the strike that will finish the
\*           enemy they may press K_f as well.
NoParryYet == game.action_memory.parry = 0

ParryWithCast ==
  /\ last.op = "lightning" /\ last.accepted
  /\ enemy.health <= LIGHTNING_DAMAGE

NextGuard ==
  \/ DuelFrame
  \/ scn = "early" /\ WindupStarts /\ Parry
  \/ scn = "timely" /\ AttackStarts /\ NoParryYet /\ Parry
  \/ scn = "finish" /\ WindupStarts /\ HeavyAttack
  \/ scn = "finish" /\ WindupStarts /\ Lightning
  \/ scn = "finish" /\ ParryWithCast /\ Parry
  \/ game.mode /= "RUNNING" /\ Reset

InitGuard == InitFor("early") \/ InitFor("timely") \/ InitFor("finish")

SpecGuard == InitGuard /\ [][NextGuard]_vars /\ WF_vars(DuelFrame)

\* Storm: the player closes in, presses K_2 at the moment the enemy starts
\* its windup and casts lightning during the swing.  While the strike is in
\* the list they walk either way or stand, double-tap right and press K_1.
StrikeCast == game.lightning_effects /= << >>

StormKeys == IF StrikeCast THEN {KeysNone, KeysLeft, KeysRight} ELSE {MeleeKeys}

NextStorm ==
  \/ \E keys \in StormKeys : Update(100, keys, NoRoll, StormTime)
  \/ WindupStarts /\ Unhurt /\ HeavyAttack
  \/ last.op = "update" /\ player.attack_timer > 0 /\ Unhurt /\ Lightning
  \/ StrikeCast /\ ~TapOpen(-1) /\ DirectionTap(1)
  \/ StrikeCast /\ CanTriggerAttack(player, LIGHT_ATTACK) /\ LightAttack

SpecStorm == InitFor("storm") /\ [][NextStorm]_vars

\* Idle: the player gives no input at all; the frames are of any of these
\* lengths, ms, in any order, for as long as the program runs.
IdleFrameTimes == {1, 16, 17, 33, 100, 250, 1000, 5000}

NextIdle == \E dt \in IdleFrameTimes : UpdateUntimed(dt, KeysNone, NoRoll)

SpecIdle == InitFor("idle") /\ [][NextIdle]_vars

\* ------------------------------------------------------------- properties
\* the distance between the actors' horizontal centres
CentreDistance == Abs(CenterX(player.rect) - CenterX(enemy.rect))

\* damage amounts tried on every reachable state: none, one point, the
\* amounts the fight deals, and amounts up to and past either actor's health
DamageAmounts ==
  {0, 1, LIGHT_ATTACK.damage, ENEMY_ATTACK_DAMAGE, HEAVY_ATTACK.damage,
   LIGHTNING_DAMAGE, MAX_HEALTH - 1, MAX_HEALTH, MAX_HEALTH + 1,
   ENEMY_MAX_HEALTH - 1, ENEMY_MAX_HEALTH, ENEMY_MAX_HEALTH + 1, MaxDamage}

\* C1: in every reachable state the player's health is in [0, 100] and the
\* enemy's health is in [0, 120], and Player.damage / Enemy.damage applied
\* to that state with any non-negative amount leaves it there.
C1_HealthBounds ==
  /\ player.health \in 0..MAX_HEALTH
  /\ enemy.health \in 0..ENEMY_MAX_HEALTH
  /\ \A amount \in DamageAmounts :
       /\ PlayerDamage(player, amount).health \in 0..MAX_HEALTH
       /\ \A direction \in {-1, 1} :
            EnemyDamage(enemy, amount, LIGHTNING_KNOCKBACK, direction).health
              \in 0..ENEMY_MAX_HEALTH

\* C1 witness: the player's swing has just damaged the enemy, whose attack
\* had already landed on the player.
C1_Witness ==
  /\ last.player_hit
  /\ player.health = MAX_HEALTH - ENEMY_ATTACK_DAMAGE
  /\ enemy.health < ENEMY_MAX_HEALTH

\* amounts tried on every reachable state for the two pools
PoolAmounts ==
  {0, 1, PARRY_REFUND, MAX_STAMINA - 1, MAX_STAMINA, MAX_STAMINA + 1,
   MYTH_ENERGY_PARRY_GAIN, MAX_MYTH_ENERGY - 1, MAX_MYTH_ENERGY,
   MAX_MYTH_ENERGY + 1}

\* C2: in every reachable state stamina is in [0, max_stamina] and myth
\* energy in [0, max_myth_energy], and each operation that moves a pool
\* (regeneration, refund, gain, damage penalty, spending) keeps it there.
C2_PoolBounds ==
  /\ player.stamina \in 0..MAX_STAMINA
  /\ player.myth_energy \in 0..MAX_MYTH_ENERGY
  /\ \A dt \in {0, 20, 100} :
       PlayerTimers(player, dt).stamina \in 0..MAX_STAMINA
  /\ \A amount \in PoolAmounts :
       /\ HealStamina(player, amount).stamina \in 0..MAX_STAMINA
       /\ GainMythEnergy(player, amount).myth_energy \in 0..MAX_MYTH_ENERGY
       /\ SpendMythEnergy(player, amount).myth_energy \in 0..MAX_MYTH_ENERGY
  /\ RegisterParrySuccess(player).myth_energy \in 0..MAX_MYTH_ENERGY
  /\ PlayerDamage(player, ENEMY_ATTACK_DAMAGE).myth_energy
       \in 0..MAX_MYTH_ENERGY
  /\ \A attack \in {LIGHT_ATTACK, HEAVY_ATTACK} :
       TriggerAttack(player, attack).stamina \in 0..MAX_STAMINA
  /\ PlayerParry(player).stamina \in 0..MAX_STAMINA

\* C2 witness: a parry has just succeeded; its refund has been added to
\* stamina that a swing and the parry had drawn on, and its gain to the
\* myth energy.
C2_Witness ==
  /\ last.enemy_hit = "parry"
  /\ player.stamina < MAX_STAMINA
  /\ player.myth_energy > MYTH_ENERGY_START

\* what a refused attack or parry must leave alone: the stamina pool and
\* every attack and parry timer, with the swing they time
SwingStateOf(p) ==
  <<p.stamina, p.attack_timer, p.attack_cooldown, p.parry_timer,
    p.parry_cooldown, p.current_attack, p.attack_hitbox, p.parry_triggered>>

\* what a refused ability must leave alone: the myth pool, the abilities'
\* timers and cooldowns, the strike list and the player's position
CastStateOf(w) ==
  <<w.p.myth_energy, w.g.time_slow_timer, w.g.time_slow_cooldown,
    w.g.lightning_cooldown, w.p.void_shift_cooldown, w.p.invulnerable_timer,
    w.g.lightning_effects, w.p.rect>>

\* C3: a press whose cost exceeds the pool changes nothing: light attack,
\* heavy attack and parry with stamina below their cost leave stamina and
\* all attack and parry timers as they were; time-slow, lightning and the
\* double-tap dash with myth energy below their cost leave myth energy, the
\* cooldowns, the strike list and the player's position as they were.
C3_ShortRejected ==
  [][/\ \A attack \in {LIGHT_ATTACK, HEAVY_ATTACK} :
          last'.op = attack.name /\ player.stamina < attack.stamina_cost
            => SwingStateOf(player') = SwingStateOf(player)
     /\ last'.op = "parry" /\ player.stamina < PARRY_COST
          => SwingStateOf(player') = SwingStateOf(player)
     /\ \A cast \in {[op |-> "time_slow", cost |-> TIME_SLOW_COST],
                      [op |-> "lightning", cost |-> LIGHTNING_COST],
                      [op |-> "tap", cost |-> VOID_SHIFT_COST]} :
          last'.op = cast.op /\ player.myth_energy < cast.cost
            => CastStateOf([p |-> player', e |-> enemy', g |-> game'])
                 = CastStateOf(World)
    ]_vars

\* C3 witness: a heavy attack has just been refused for want of stamina
\* alone (its timers were clear).
C3_Witness ==
  /\ last.op = "heavy" /\ last.short /\ ~last.accepted
  /\ player.stamina < HEAVY_ATTACK.stamina_cost
  /\ player.attack_timer = 0 /\ player.attack_cooldown = 0

\* C4: the player's attack hitbox is present exactly when an attack is in
\* progress and the time since its trigger, duration - attack_timer, lies
\* within [active_start, active_end]; so it is absent before any trigger,
\* before active_start, after active_end and once the duration has expired.
C4_HitboxWindow ==
  Truthy(player.attack_hitbox)
    <=> /\ player.current_attack /= NoAttack
        /\ player.attack_timer > 0
        /\ player.current_attack.duration - player.attack_timer
             >= player.current_attack.active_start
        /\ player.current_attack.duration - player.attack_timer
             <= player.current_attack.active_end

\* C4 witness: a frame has left the hitbox present at the very end of the
\* light attack's active window.
C4_Witness ==
  /\ last.op = "update"
  /\ player.current_attack = LIGHT_ATTACK
  /\ LIGHT_ATTACK.duration - player.attack_timer = LIGHT_ATTACK.active_end
  /\ Truthy(player.attack_hitbox)

\* _calculate_combo_damage and the stun bonus of CombatGame.update written
\* out: the damage of a swing of base damage `base` at combo count `combo`
SwingDamage(base, combo, slowed, stunned) ==
  LET scaled == (base * (100 + 12 * combo + (IF slowed THEN 8 ELSE 0))) \div 100
  IN IF stunned THEN (scaled * 125) \div 100 ELSE scaled

\* C5: a swing connects in at most one frame between its trigger and the
\* next, however many frames its hitbox overlaps the enemy, and the frame
\* in which it connects takes exactly one instance of the combo-scaled
\* damage off the enemy's health.
C5_SingleHit ==
  /\ [](swing_hits <= 1)
  /\ [][last'.player_hit /\ last'.strike_hits = 0
          => \E stunned \in BOOLEAN :
               enemy'.health =
                 Max(0, enemy.health
                          - SwingDamage(player.current_attack.damage,
                                        game'.combo_count - 1,
                                        game'.time_slow_timer > 0, stunned))
       ]_vars

\* C5 witness: a hit-stop frame after the swing connected: the hitbox is
\* still there and still on the enemy, and the frame applied no hit.
C5_Witness ==
  /\ swing_hits = 1
  /\ last.op = "update" /\ last.effective_dt = 0 /\ ~last.player_hit
  /\ player.attack_has_connected
  /\ CollideRect(enemy.rect, player.attack_hitbox)

\* Player.update, lines 508-509, written out: stamina after dt of
\* regeneration
Regenerated(stamina, dt) ==
  IF stamina < MAX_STAMINA
    THEN Min(MAX_STAMINA, stamina + STAMINA_REGEN * dt) ELSE stamina

\* C6 as stated: a frame in which the enemy's attack hitbox overlaps the
\* player while the parry window is open leaves the player's health
\* unchanged, stuns the enemy and adds the refund of 18 to the stamina.
C6_ParryOpen ==
  [][last'.op = "update" /\ last'.enemy_hit /= "none"
       /\ player'.parry_timer > 0
         => /\ player'.health = player.health
            /\ enemy'.state = "STUNNED"
            /\ player'.stamina
                 = Regenerated(player.stamina, last'.effective_dt) + PARRY_REFUND
    ]_vars

\* C6 amended: a frame in which the enemy's attack hitbox overlaps a player
\* who is not invulnerable while the parry window is open leaves the
\* player's health unchanged, stuns the enemy and adds the refund of 18 to
\* the stamina, up to max_stamina.
C6_ParryOpenCapped ==
  [][last'.op = "update" /\ last'.enemy_hit = "parry"
         => /\ player'.parry_timer > 0
            /\ player'.health = player.health
            /\ enemy'.state = "STUNNED"
            /\ player'.stamina
                 = Min(MAX_STAMINA,
                       Regenerated(player.stamina, last'.effective_dt)
                         + PARRY_REFUND)
    ]_vars

\* C6 witness: a parry has just succeeded and the whole refund fitted under
\* the cap.
C6_Witness ==
  /\ last.enemy_hit = "parry"
  /\ enemy.state = "STUNNED"
  /\ player.stamina < MAX_STAMINA
  /\ player.health = MAX_HEALTH

\* C7 as stated: a frame in which the enemy's attack hitbox overlaps the
\* player while the parry window is closed takes 18 off the player's
\* health, resets the combo count and timer to 0 and puts the enemy in
\* Recover.
C7_ParryClosed ==
  [][last'.op = "update" /\ last'.enemy_hit /= "none"
       /\ ~(player'.parry_timer > 0)
         => /\ player'.health = player.health - ENEMY_ATTACK_DAMAGE
            /\ game'.combo_count = 0 /\ game'.combo_timer = 0
            /\ enemy'.state = "RECOVER"
    ]_vars

\* C7 amended: a frame in which the enemy's attack hitbox overlaps a player
\* who is not invulnerable while the parry window is closed takes 18 off
\* the player's health (down to 0 at most), resets the combo count and
\* timer to 0 and puts the enemy in Recover; if the player is invulnerable
\* the frame leaves health, combo and the enemy's state alone.
C7_ParryClosedVulnerable ==
  [][/\ last'.op = "update" /\ last'.enemy_hit = "damage"
          => /\ ~(player'.parry_timer > 0)
             /\ player'.health = Max(0, player.health - ENEMY_ATTACK_DAMAGE)
             /\ game'.combo_count = 0 /\ game'.combo_timer = 0
             /\ enemy'.state = "RECOVER"
     /\ last'.op = "update" /\ last'.enemy_hit = "invulnerable"
          => /\ player'.invulnerable_timer > 0
             /\ player'.health = player.health
             /\ enemy'.state = "ATTACK"
    ]_vars

\* C7 witness: the enemy's attack has just landed on a player whose combo
\* was running: the swing that started it had damaged the enemy.
C7_Witness ==
  /\ last.enemy_hit = "damage"
  /\ enemy.state = "RECOVER"
  /\ enemy.health < ENEMY_MAX_HEALTH
  /\ last.combo_lost > 0
  /\ game.combo_count = 0 /\ game.combo_timer = 0

\* the strikes of the strike list
Strikes(g) == {g.lightning_effects[i] : i \in DOMAIN g.lightning_effects}

\* C8: a lightning strike damages the enemy at most once, and only in the
\* first frame in which its warmup has reached 0: a strike whose warmup is
\* 0 is marked as applied, a frame damages by lightning only if a strike
\* not yet applied had warmup left before it, and a frame before which
\* every strike was applied leaves the enemy's health to the player's swing.
C8_StrikeOnce ==
  /\ [](\A strike \in Strikes(game) : strike.warmup = 0 => strike.applied)
  /\ [][/\ last'.strike_hits > 0
            => \E strike \in Strikes(game) :
                 /\ ~strike.applied /\ strike.warmup > 0
                 /\ strike.warmup - last'.dt <= 0
        /\ last'.strike_hits
             <= Cardinality({i \in DOMAIN game.lightning_effects :
                               ~game.lightning_effects[i].applied})
        /\ (\A strike \in Strikes(game) : strike.applied)
             /\ last'.op = "update" /\ ~last'.player_hit
           => last'.strike_hits = 0 /\ enemy'.health = enemy.health
       ]_vars

\* C8 witness: a frame after the strike resolved and damaged the enemy: the
\* strike is still alive, the enemy still inside its radius, and the frame
\* took nothing off the enemy's health.
C8_Witness ==
  /\ last.op = "update" /\ last.strike_hits = 0
  /\ enemy.health = ENEMY_MAX_HEALTH - LIGHTNING_DAMAGE
  /\ \E strike \in Strikes(game) :
       strike.applied /\ strike.timer < LIGHTNING_LIFETIME - LIGHTNING_WARMUP - 100
         /\ InStrikeRange(enemy, strike)

\* the place a dash in `direction` takes the player to
DashTarget(direction) ==
  Max(30, Min(player.rect.x + direction * VOID_SHIFT_DISTANCE, WIDTH - 84))

\* C9: for a player able to dash (myth energy for it, no cooldown), a press
\* no more than 0.28 s after the previous press of the same direction
\* dashes once and consumes both presses (the tracked time returns to the
\* sentinel); a press further than 0.28 s from the previous one dashes not
\* and becomes the start of a new window.
C9_DoubleTap ==
  [][last'.op = "tap"
       => LET direction == last'.arg
              gap == ticks - game.last_direction_tap[direction]
          IN /\ gap <= VOID_SHIFT_DOUBLE_TAP
                  /\ player.void_shift_cooldown = 0
                  /\ player.myth_energy >= VOID_SHIFT_COST
                => /\ player'.rect.x = DashTarget(direction)
                   /\ player'.myth_energy = player.myth_energy - VOID_SHIFT_COST
                   /\ game'.last_direction_tap[direction] = TAP_SENTINEL
             /\ gap > VOID_SHIFT_DOUBLE_TAP
                => /\ player' = player
                   /\ game'.last_direction_tap[direction] = ticks
    ]_vars

\* the simulation state: everything but the screen-shake offset, which only
\* the renderer reads
Simulation(w) == [w EXCEPT !.g.shake_offset = [x |-> 0, y |-> 0]]

\* the enemy's transitions out of Patrol, Chase and Windup in a frame, and
\* the frame's independence of the random draws
AutoStep ==
  /\ enemy.state = "PATROL"
       => enemy'.state = IF CentreDistance' < CHASE_RANGE
                           THEN "CHASE" ELSE "PATROL"
  /\ enemy.state = "CHASE"
       => IF CentreDistance' < WINDUP_RANGE
            THEN enemy'.state = "WINDUP"
                   /\ enemy'.state_timer = enemy.windup_duration
            ELSE enemy'.state = "CHASE"
  /\ enemy.state = "WINDUP"
       => IF enemy.state_timer - last'.dt <= 0
            THEN enemy'.state = "ATTACK"
                   /\ enemy'.state_timer = enemy.attack_duration
            ELSE enemy'.state = "WINDUP"
                   /\ enemy'.state_timer = enemy.state_timer - last'.dt
  /\ \A roll \in RollSet :
       Simulation(Frame(World, last'.dt, AutoKeys, roll).w)
         = Simulation([p |-> player', e |-> enemy', g |-> game'])

\* C10 as stated: with a fixed dt and no input once the player is in chase
\* range, the enemy goes Patrol -> Chase when the centre distance is below
\* 220, Chase -> Windup when it is below 120, Windup -> Attack after the
\* windup duration, Attack -> Recover after the attack duration, and the
\* simulation state after each frame is the same whatever the random draws.
C10_Autonomous ==
  [][last'.op = "update"
       => /\ AutoStep
          /\ enemy.state = "ATTACK"
               => enemy'.state = IF enemy.state_timer - last'.dt <= 0
                                   THEN "RECOVER" ELSE "ATTACK"
    ]_vars

\* C10 amended: as stated, except that Attack -> Recover happens after the
\* attack duration or in the frame in which the attack lands on the player,
\* whichever comes first.
C10_AutonomousUntilHit ==
  [][last'.op = "update"
       => /\ AutoStep
          /\ enemy.state = "ATTACK"
               => enemy'.state
                    = IF enemy.state_timer - last'.dt <= 0
                           \/ last'.enemy_hit = "damage"
                        THEN "RECOVER" ELSE "ATTACK"
    ]_vars

\* C10 witness: the enemy has gone through Chase, Windup and Attack and is
\* in Recover, its attack having landed, in a run of 20 ms frames.
C10_Witness ==
  /\ scn = "auto" /\ last.dt = 20
  /\ enemy.state = "RECOVER"
  /\ player.health = MAX_HEALTH - ENEMY_ATTACK_DAMAGE

\* the speed bias the enemy was last tuned with, in thousandths
\* (set_learning_tuning: chase_speed = 200 * speed_bias)
TunedSpeedBias == enemy.chase_speed \div 200

\* the largest speed bias, 1 + (1 - 0.3) * 0.6, in thousandths
SPEED_BIAS_MAX == 1420

C12_TimersNonNegative ==
  /\ \A f \in {"attack_timer", "attack_cooldown", "parry_timer",
                "parry_cooldown", "parry_success_flash", "hit_flash",
                "invulnerable_timer", "void_shift_cooldown", "cast_flash",
                "animation_lock"} : player[f] >= 0
  /\ \A f \in {"state_timer", "hit_flash", "animation_lock"} : enemy[f] >= 0
  /\ \A f \in {"hit_stop_timer", "time_slow_timer", "time_slow_cooldown",
                "lightning_cooldown", "combo_timer", "parry_feedback_timer",
                "trail_spawn_timer", "shake_timer"} : game[f] >= 0
  /\ \A i \in DOMAIN game.trail_segments : game.trail_segments[i] > 0
  /\ \A i \in DOMAIN game.lightning_effects :
        /\ game.lightning_effects[i].timer >= 0
        /\ game.lightning_effects[i].warmup >= 0

\* C12 witness: a frame of 100 ms has taken the last 50 ms of the parry
\* window (250 ms) and the enemy's state timer has run since
C12_Witness ==
  /\ last.op = "update" /\ last.effective_dt = 100
  /\ player.parry_timer = 0
  /\ player.parry_cooldown = PARRY_COOLDOWN - 300
  /\ enemy.state \in {"WINDUP", "ATTACK", "RECOVER", "STUNNED"}
  /\ enemy.state_timer > 0

\* C13: an attack and a parry are never both active, and an attack key
\* pressed while the parry window is open, or the parry key pressed while an
\* attack is in progress, changes nothing.
C13_AttackParryExclusive ==
  /\ [](~(player.attack_timer > 0 /\ player.parry_timer > 0))
  /\ [][/\ last'.op \in {"light", "heavy"} /\ player.parry_timer > 0
           => player' = player
        /\ last'.op = "parry" /\ player.attack_timer > 0
           => player' = player]_vars

\* Victory or Defeat
Terminal == game.mode \in {"VICTORY", "DEFEAT"}

\* C14: once the mode is Victory or Defeat, activate_time_slow,
\* cast_lightning, try_void_shift and handle_direction_tap leave the whole
\* simulation state as it is, so does every step but a reset (update
\* included), and the mode changes only through reset.
C14_Terminal ==
  /\ [](Terminal
          => /\ ActivateTimeSlow(World) = World
             /\ CastLightning(World) = World
             /\ \A direction \in {-1, 1} :
                   /\ TryVoidShift(World, direction) = World
                   /\ \A now \in {ticks, ticks + VOID_SHIFT_DOUBLE_TAP} :
                         HandleDirectionTap(World, direction, now) = World)
  /\ [][Terminal
          => /\ last'.op /= "reset" => World' = World
             /\ game'.mode /= game.mode => last'.op = "reset"]_vars

\* C14 witness: update has been called on a game that the player has lost
C14_Witness ==
  /\ game.mode = "DEFEAT"
  /\ player.health = 0
  /\ last.op = "update" /\ ~last.accepted

\* an attack is in progress or its cooldown is running
AttackBusy == player.attack_timer > 0 \/ player.attack_cooldown > 0

\* C15: an attack key pressed while an attack is in progress or its cooldown
\* is running changes nothing (stamina, timers, attack, hitbox and
\* has-connected flag included), and it is not queued: an attack starts
\* only in the step of a press made while neither was running.
C15_RefireNoOp ==
  /\ [][last'.op \in {"light", "heavy"} /\ AttackBusy
          => /\ ~last'.accepted
             /\ player' = player /\ enemy' = enemy /\ game' = game]_vars
  /\ [][(\/ player'.attack_timer > player.attack_timer
         \/ player'.current_attack \notin {player.current_attack, NoAttack}
         \/ player'.stamina < player.stamina)
          => /\ last'.op \in {"light", "heavy", "parry"}
             /\ last'.accepted
             /\ last'.op /= "parry" => ~AttackBusy]_vars

\* C15 witness: the heavy key was pressed and refused during a light swing
\* whose hitbox is out, the player having stamina to spare
C15_Witness ==
  /\ last.op = "heavy" /\ ~last.accepted /\ ~last.short
  /\ player.current_attack = LIGHT_ATTACK
  /\ player.attack_timer > 0
  /\ Truthy(player.attack_hitbox)
  /\ player.stamina >= HEAVY_ATTACK.stamina_cost

\* C16: after the terminal check that ends a frame the mode is Victory if
\* the enemy's health is 0 or less, Defeat if it is not and the player's
\* health is 0 or less, and Running if neither is; the two are never both
\* 0 or less, so the order of the two tests decides nothing.
C16_TerminalCheck ==
  /\ ~(player.health <= 0 /\ enemy.health <= 0)
  /\ enemy.health <= 0 => game.mode = "VICTORY"
  /\ enemy.health > 0 /\ player.health <= 0 => game.mode = "DEFEAT"
  /\ enemy.health > 0 /\ player.health > 0 => game.mode = "RUNNING"

\* C16 witness: the frame just run has brought the enemy's health to 0, the
\* player having been hurt before
C16_Witness ==
  /\ last.op = "update" /\ last.accepted
  /\ last.player_hit \/ last.strike_hits > 0
  /\ enemy.health = 0
  /\ player.health < MAX_HEALTH
  /\ game.mode = "VICTORY"

\* C17: in a frame the enemy's update sees the player as this frame's
\* update has moved them (a patrolling enemy gives chase exactly when the
\* new centres are less than 220 apart); the hits are resolved after both
\* updates and the player's first: a frame in which the player's swing
\* connects leaves the enemy Stunned and the player's health as it was,
\* whether or not the enemy's attack hitbox was on the player; and the
\* terminal check comes last: a frame that brings a health to 0 ends in
\* Victory or Defeat.
C17_FrameOrder ==
  [][last'.op = "update" /\ last'.accepted
       => /\ (enemy.state = "PATROL" /\ ~last'.player_hit
                /\ last'.strike_hits = 0 /\ last'.effective_dt > 0)
               => (enemy'.state = "CHASE"
                     <=> Abs(CenterX(player'.rect) - CenterX(enemy'.rect))
                           < CHASE_RANGE)
          /\ last'.player_hit
               => (/\ Truthy(player'.attack_hitbox)
                   /\ enemy'.state = "STUNNED"
                   /\ last'.enemy_hit = "none"
                   /\ player'.health = player.health)
          /\ enemy'.health <= 0 => game'.mode = "VICTORY"
          /\ player'.health <= 0 => game'.mode = "DEFEAT"]_vars

\* C17 witness: the player's swing has connected in a frame in which the
\* enemy's attack hitbox was on the player, and has won the fight
C17_Witness ==
  /\ last.op = "update"
  /\ last.player_hit /\ last.enemy_on_player
  /\ enemy.health = 0
  /\ game.mode = "VICTORY"

\* ------------------------------------------------------------------ C18
\* a frame of the running game that starts with the hit-stop timer active
\* and in which no blow lands
HitStopFrame ==
  /\ last'.op = "update" /\ last'.accepted
  /\ game.hit_stop_timer > 0
  /\ ~last'.player_hit /\ last'.strike_hits = 0 /\ last'.enemy_hit = "none"

\* the gameplay side of a frame: both actors' positions, the player's
\* attack, cooldown and parry timers and stamina, the enemy's state and
\* state_timer are what they were
GameplayFrozen ==
  /\ player'.rect = player.rect
  /\ \A f \in {"attack_timer", "attack_cooldown", "parry_timer",
               "parry_cooldown", "invulnerable_timer",
               "void_shift_cooldown", "stamina"} : player'[f] = player[f]
  /\ enemy'.rect = enemy.rect
  /\ enemy'.state = enemy.state
  /\ enemy'.state_timer = enemy.state_timer

\* the hit-stop frame gives both actors dt = 0 and leaves the gameplay as
\* it was
HitStopFreezes ==
  [][HitStopFrame
       => /\ last'.effective_dt = 0 /\ last'.enemy_dt = 0
          /\ GameplayFrozen]_vars

\* C18: in a frame that starts with the hit-stop timer active both actors
\* receive dt = 0 and their positions, attack, cooldown and parry timers,
\* the enemy's state_timer and the stamina do not advance, while the hit
\* flash, the parry-success flash and the cast flash decrease by the real
\* dt of the frame.
C18_HitStop ==
  [][HitStopFrame
       => /\ last'.effective_dt = 0 /\ last'.enemy_dt = 0
          /\ GameplayFrozen
          /\ \A f \in {"hit_flash", "parry_success_flash", "cast_flash"} :
                player'[f] = Tick(player[f], last'.dt)
          /\ enemy'.hit_flash = Tick(enemy.hit_flash, last'.dt)]_vars

\* what the code does with the flashes in such a frame: they are ticked
\* inside Player.update and Enemy.update, with the dt = 0 these receive
HitStopHoldsFlashes ==
  [][HitStopFrame
       => /\ \A f \in {"hit_flash", "parry_success_flash", "cast_flash"} :
                player'[f] = player[f]
          /\ enemy'.hit_flash = enemy.hit_flash]_vars

\* a hit-stop frame has just run with a flash still showing
HitStopSeen ==
  /\ last.op = "update" /\ last.accepted
  /\ last.dt > 0 /\ last.effective_dt = 0
  /\ enemy.hit_flash > 0

\* ------------------------------------------------------------------ C19
\* C19 as stated: whenever the hit-stop timer is active it eventually
\* reaches 0.
C19_HitStopEnds == (game.hit_stop_timer > 0) ~> (game.hit_stop_timer = 0)

\* C19, while the game is running: a frame that finds the hit-stop timer
\* active and lands no blow brings it strictly down, a frame that finds it
\* at 0 gives the player's update the whole dt > 0, and whenever the timer
\* is active it eventually reaches 0 or the fight is over (Victory or
\* Defeat, in which update does nothing and the timer stays where the last
\* blow left it until the game is reset).
C19_HitStopEndsRunning ==
  /\ [][HitStopFrame
          => /\ last'.dt > 0
             /\ game'.hit_stop_timer < game.hit_stop_timer]_vars
  /\ [][last'.op = "update" /\ last'.accepted /\ game.hit_stop_timer = 0
          => last'.effective_dt = last'.dt /\ last'.dt > 0]_vars
  /\ (game.hit_stop_timer > 0) ~> (Terminal \/ game.hit_stop_timer = 0)

\* a running game comes out of a hit-stop that held the actors for more
\* than one frame: the frame just run gave them dt = 0 and brought the
\* timer, already below both of the values a blow sets, to 0
C19_Witness ==
  /\ game.mode = "RUNNING"
  /\ last.op = "update" /\ last.accepted
  /\ last.dt > 0 /\ last.effective_dt = 0
  /\ last.dt < HIT_STOP_LIGHT
  /\ game.hit_stop_timer = 0

\* ------------------------------------------------------------------ C20
\* time dilation is active in the frame just run: update tests the timer
\* after _tick_cooldowns has brought it down by the frame's dt, and nothing
\* else in a frame changes it
DilationActive == game.time_slow_timer > 0

\* the player's timers that are set by key presses only: in a frame they
\* do nothing but count down
PressTimers == {"cast_flash", "void_shift_cooldown", "parry_cooldown"}

\* the enemy's fields that Enemy.update works on
UpdatedFields == {"state", "state_timer", "rect", "facing", "attack_rect"}

\* C20: in every frame in which time dilation is active the enemy's update
\* (state timer, movement, transitions) receives the frame's simulation dt
\* times 0.35 and the player's update the whole simulation dt; in every
\* frame in which it is not active both receive the same dt.  The
\* simulation dt is the frame's dt, or 0 in hit-stop; the enemy's side is
\* compared in the frames in which no blow lands.
C20_TimeDilation ==
  [][last'.op = "update" /\ last'.accepted
       => /\ game'.time_slow_timer = Tick(game.time_slow_timer, last'.dt)
          /\ last'.effective_dt \in {0, last'.dt}
          /\ last'.enemy_dt = IF DilationActive'
                                THEN (last'.effective_dt * 35) \div 100
                                ELSE last'.effective_dt
          /\ \A f \in PressTimers :
                player'[f] = Tick(player[f], last'.effective_dt)
          /\ (~last'.player_hit /\ last'.strike_hits = 0
                /\ last'.enemy_hit = "none")
               => \A f \in UpdatedFields :
                     enemy'[f] = EnemyUpdate(enemy, last'.enemy_dt, player')[f]
         ]_vars

\* a frame run under time dilation while the enemy winds up: the cast flash
\* of the activation went down by the whole 100 ms while the enemy was
\* given 35 ms
C20_Witness ==
  /\ last.op = "update" /\ last.accepted
  /\ DilationActive
  /\ last.effective_dt = 100 /\ last.enemy_dt = 35
  /\ player.cast_flash = 350
  /\ enemy.state = "WINDUP"

\* the frame in which the dilation runs out: neither side is slowed
DilationEnds ==
  /\ last.op = "update" /\ last.accepted
  /\ ~DilationActive
  /\ game.time_slow_cooldown > TIME_SLOW_COOLDOWN - TIME_SLOW_DURATION - last.dt
  /\ game.time_slow_cooldown <= TIME_SLOW_COOLDOWN - TIME_SLOW_DURATION
  /\ last.enemy_dt = last.effective_dt /\ last.effective_dt > 0

\* ------------------------------------------------------------------ C21
\* the step is a press of K_x
PressesTimeSlow == last'.op = "time_slow"

\* the three tests of activate_time_slow pass
DilationReady ==
  /\ game.time_slow_timer = 0
  /\ game.time_slow_cooldown = 0
  /\ player.myth_energy >= TIME_SLOW_COST

\* the step starts the active timer and the cooldown and takes the cost
DilationStarts ==
  /\ player'.myth_energy = player.myth_energy - TIME_SLOW_COST
  /\ game'.time_slow_timer = TIME_SLOW_DURATION
  /\ game'.time_slow_cooldown = TIME_SLOW_COOLDOWN

\* C21: time dilation is activated only by a press that finds it not
\* active, its cooldown at 0 and myth energy >= 36; the activation takes
\* 36 myth energy and starts the 3.0 s timer and the 8.0 s cooldown in one
\* step; a press that fails a test leaves the three alone; frames bring
\* both timers down by dt, so that the effect ends with no input (while
\* it is active the cooldown is 5.0 s ahead of it, and it eventually ends
\* unless the fight ends first), and the cooldown rises at an activation
\* only, which requires it to have reached 0.
C21_TimeSlowCycle ==
  /\ [][PressesTimeSlow /\ DilationReady => DilationStarts]_vars
  /\ [][PressesTimeSlow /\ ~DilationReady
          => /\ game'.time_slow_timer = game.time_slow_timer
             /\ game'.time_slow_cooldown = game.time_slow_cooldown
             /\ player'.myth_energy = player.myth_energy]_vars
  /\ [][(\/ game'.time_slow_timer > game.time_slow_timer
         \/ game'.time_slow_cooldown > game.time_slow_cooldown)
          => PressesTimeSlow /\ DilationReady /\ DilationStarts]_vars
  /\ [][last'.op = "update" /\ last'.accepted
          => /\ game'.time_slow_timer = Tick(game.time_slow_timer, last'.dt)
             /\ game'.time_slow_cooldown
                  = Tick(game.time_slow_cooldown, last'.dt)]_vars
  /\ [](DilationActive
          => game.time_slow_cooldown
               = game.time_slow_timer
                   + TIME_SLOW_COOLDOWN - TIME_SLOW_DURATION)
  /\ DilationActive ~> (~DilationActive \/ Terminal)

\* K_x has just been accepted, in a fight in which hits had raised the
\* myth energy above what the game starts with
C21_Witness ==
  /\ last.op = "time_slow" /\ last.accepted
  /\ game.time_slow_timer = TIME_SLOW_DURATION
  /\ game.time_slow_cooldown = TIME_SLOW_COOLDOWN
  /\ player.myth_energy > MYTH_ENERGY_START - TIME_SLOW_COST

\* K_x pressed while the cooldown runs and the myth energy would pay
DilationRefusedOnCooldown ==
  /\ last.op = "time_slow" /\ ~last.accepted
  /\ game.time_slow_timer = 0 /\ game.time_slow_cooldown > 0
  /\ player.myth_energy >= TIME_SLOW_COST

\* ------------------------------------------------------------------ C22
\* a frame in which neither the player's swing nor a strike lands
NoPlayerBlow == ~last'.player_hit /\ last'.strike_hits = 0

\* C22: in a frame in which the enemy's attack hitbox is on the player
\* while the invulnerability timer is > 0 (as hit resolution finds it,
\* after the frame's countdown), the hit resolution does nothing: health
\* and myth energy are unchanged, the stamina only regenerates, the combo
\* only runs its timer, no parry success is registered even with the
\* parry window open, and the enemy stays in Attack.
C22_Invulnerable ==
  [][(last'.op = "update" /\ last'.accepted
        /\ last'.enemy_on_player /\ NoPlayerBlow
        /\ player'.invulnerable_timer > 0)
       => /\ last'.enemy_hit = "invulnerable"
          /\ player'.health = player.health
          /\ player'.myth_energy = player.myth_energy
          /\ player'.stamina = Regenerated(player.stamina, last'.effective_dt)
          /\ game'.combo_count = UpdateComboTimer(game, last'.dt).combo_count
          /\ game'.combo_timer = UpdateComboTimer(game, last'.dt).combo_timer
          /\ player'.parry_successful = player.parry_successful
          /\ player'.parry_success_flash
               = Tick(player.parry_success_flash, last'.effective_dt)
          /\ player'.hit_flash = Tick(player.hit_flash, last'.effective_dt)
          /\ game'.action_memory = DecayedMemory(game.action_memory)
          /\ game'.hit_stop_timer = Tick(game.hit_stop_timer, last'.dt)
          /\ enemy'.state = "ATTACK"
          /\ enemy'.health = enemy.health]_vars

\* the enemy's attack has just passed through an invulnerable player whose
\* parry window was open
C22_Witness ==
  /\ last.op = "update" /\ last.enemy_hit = "invulnerable"
  /\ last.enemy_on_player
  /\ player.invulnerable_timer > 0
  /\ player.parry_timer > 0
  /\ enemy.state = "ATTACK"

\* ------------------------------------------------------------------ C23
\* C23: the enemy's attack hitbox is present only while the enemy is in
\* the Attack state: whenever the state is Patrol, Chase, Windup, Recover
\* or Stunned, attack_rect is absent.
C23_AttackRectOnlyInAttack ==
  enemy.state /= "ATTACK" => ~Truthy(enemy.attack_rect)

\* what the code keeps: the hitbox is absent in Windup and when Attack is
\* entered, and a frame tests it against the player in Attack only
AttackRectClearedOnEntry ==
  /\ enemy.state = "WINDUP" => ~Truthy(enemy.attack_rect)
  /\ AttackStarts => ~Truthy(enemy.attack_rect)
  /\ last.enemy_on_player => last.op = "update"

\* the hitbox is left behind in Recover by an attack that has just damaged
\* the player
StaleAfterDamage ==
  /\ last.op = "update" /\ last.enemy_hit = "damage"
  /\ enemy.state = "RECOVER" /\ Truthy(enemy.attack_rect)

\* the hitbox is left behind in Stunned by a swing that caught the enemy
\* in mid-attack
StaleAfterStun ==
  /\ last.op = "update" /\ last.player_hit
  /\ enemy.state = "STUNNED" /\ Truthy(enemy.attack_rect)

\* ------------------------------------------------------------------ C24
\* the enemy's state timer runs out in the frame
TimerExpires == enemy.state_timer - last'.enemy_dt <= 0

\* the enemy takes a hit in the frame: a swing or a lightning strike
TakesHit == last'.player_hit \/ last'.strike_hits > 0

\* the change of state from -> to is one Enemy.update makes in the frame
UpdateTransition(from, to) ==
  \/ /\ from = "PATROL" /\ to = "CHASE"
     /\ CentreDistance' < CHASE_RANGE
  \/ /\ from = "CHASE" /\ to = "WINDUP"
     /\ CentreDistance' < WINDUP_RANGE
     /\ enemy'.state_timer = enemy.windup_duration
  \/ /\ from = "WINDUP" /\ to = "ATTACK"
     /\ TimerExpires
     /\ enemy'.state_timer = enemy.attack_duration
  \/ /\ from = "ATTACK" /\ to = "RECOVER"
     /\ \/ TimerExpires /\ enemy'.state_timer = enemy.recover_duration
        \/ last'.enemy_hit = "damage" /\ enemy'.state_timer = 800
  \/ /\ from = "RECOVER" /\ to = "PATROL"
     /\ TimerExpires
  \/ /\ from = "STUNNED" /\ to = "RECOVER"
     /\ TimerExpires
     /\ enemy'.state_timer = enemy.recover_duration + 100

\* the change of state to Stunned is one a hit or a parry makes
StunTransition(from) ==
  \/ TakesHit /\ enemy'.state_timer \in {500, LIGHTNING_STUN}
  \/ /\ from = "ATTACK" /\ last'.enemy_hit = "parry"
     /\ enemy'.state_timer = 750

\* C24: the enemy starts in Patrol, and every change of its state within
\* a game is made by a frame and is one of Patrol->Chase (distance < 220),
\* Chase->Windup (distance < 120), Windup->Attack (timer expired),
\* Attack->Recover (timer expired, or its attack damaged the player),
\* Recover->Patrol (timer expired), Stunned->Recover (timer expired,
\* recover timer longer by 0.1), any->Stunned (took a hit) and
\* Attack->Stunned for 0.75 s (parried).
C24_Transitions ==
  /\ [](last.op \in {"init", "reset"} => enemy.state = "PATROL")
  /\ [][enemy'.state /= enemy.state /\ last'.op /= "reset"
          => /\ last'.op = "update" /\ last'.accepted
             /\ IF enemy'.state = "STUNNED"
                  THEN StunTransition(enemy.state)
                  ELSE UpdateTransition(enemy.state, enemy'.state)]_vars

\* the enemy has just been parried out of its attack
C24_Witness ==
  /\ last.op = "update" /\ last.enemy_hit = "parry"
  /\ enemy.state = "STUNNED" /\ enemy.state_timer = 750

\* C25: after every frame and after every void-shift the player's box has
\* left >= 30 and right <= WIDTH - 30, and its bottom is not below the
\* ground line, whatever movement, jump, crouch and dash inputs are given.
C25_PlayerInArena ==
  /\ player.rect.x >= 30
  /\ player.rect.x + player.rect.w <= WIDTH - 30
  /\ Bottom(player.rect) <= GROUND_Y

\* a void-shift has just thrown the crouching player against the right wall
C25_Witness ==
  /\ last.op = "tap" /\ last.arg = 1 /\ last.accepted
  /\ player.crouching
  /\ player.rect.x + player.rect.w = WIDTH - 30

\* C26: in every reachable state the enemy's box lies inside its patrol
\* corridor, left >= WIDTH/2 and right <= WIDTH - 80, whatever state the
\* enemy is in.
C26_EnemyInCorridor ==
  /\ enemy.rect.x >= WIDTH \div 2
  /\ enemy.rect.x + enemy.rect.w <= WIDTH - 80

\* the chase has taken the enemy out of the corridor on the left
ChasedOutLeft ==
  /\ last.op = "update" /\ enemy.state \in {"CHASE", "WINDUP"}
  /\ enemy.rect.x < WIDTH \div 2

\* a knockback has left the enemy's right edge beyond the corridor
KnockedOutRight ==
  /\ last.op = "update" /\ (last.player_hit \/ last.strike_hits > 0)
  /\ enemy.rect.x + enemy.rect.w > WIDTH - 80

\* a patrolling enemy is inside the corridor after every frame
PatrolInCorridor ==
  (last.op = "update" /\ last.accepted /\ enemy.state = "PATROL")
    => C26_EnemyInCorridor

\* ------------------------------------------------------------------ C27
\* the combo timer runs out in this frame (_update_combo_timer, which runs
\* after the strikes of the frame have registered their combo)
ComboTimerExpires ==
  /\ last'.strike_hits = 0
  /\ game.combo_timer > 0 /\ game.combo_timer <= last'.dt

\* the combo as _update_combo_timer alone leaves it
ComboRuns ==
  /\ game'.combo_count = UpdateComboTimer(game, last'.dt).combo_count
  /\ game'.combo_timer = UpdateComboTimer(game, last'.dt).combo_timer

\* the reset time that the blows of this frame have set
ComboTimeSet ==
  IF last'.player_hit
    THEN IF player'.current_attack = HEAVY_ATTACK
           THEN COMBO_RESET_TIME + COMBO_HEAVY_EXTRA ELSE COMBO_RESET_TIME
    ELSE COMBO_RESET_TIME + COMBO_HEAVY_EXTRA - last'.dt

\* C27: the combo count goes down only by being reset to 0, and only when
\* its reset timer (2.2 s after a light hit, 2.6 s after a heavy or a
\* lightning hit) expires or the player takes unblocked damage; a swing
\* that lands later in the frame of the reset counts from 0 again.  A
\* parry and an attack absorbed by invulnerability leave the combo count
\* and the combo timer as the frame's countdown and blows have set them.
C27_ComboReset ==
  /\ [][(game'.combo_count < game.combo_count /\ last'.op /= "reset")
          => /\ last'.op = "update" /\ last'.accepted
             /\ ComboTimerExpires \/ last'.enemy_hit = "damage"
             /\ game'.combo_count
                  = IF last'.player_hit /\ last'.enemy_hit /= "damage"
                      THEN 1 ELSE 0]_vars
  /\ [][(last'.op = "update" /\ last'.accepted
           /\ last'.enemy_hit /= "damage" /\ ~NoPlayerBlow)
          => game'.combo_timer = ComboTimeSet]_vars
  /\ [][(last'.op = "update" /\ last'.accepted
           /\ last'.enemy_hit \in {"parry", "invulnerable"})
          => IF NoPlayerBlow
               THEN ComboRuns
               ELSE /\ game'.combo_count > 0
                    /\ game'.combo_timer = ComboTimeSet]_vars
  /\ [][last'.op \notin {"update", "reset"}
          => /\ game'.combo_count = game.combo_count
             /\ game'.combo_timer = game.combo_timer]_vars

\* the enemy's attack has just been parried while a combo was running
C27_Witness ==
  /\ last.op = "update" /\ last.enemy_hit = "parry"
  /\ game.combo_count > 0 /\ game.combo_timer > 0

\* the combo has run out: its timer has expired with no blow taken
ComboExpired ==
  /\ last.op = "update" /\ last.enemy_hit /= "damage"
  /\ game.combo_count = 0 /\ game.combo_timer = 0
  /\ enemy.health < ENEMY_MAX_HEALTH

\* an attack has been absorbed by invulnerability while a combo was running
ComboKeptInvulnerable ==
  /\ last.op = "update" /\ last.enemy_hit = "invulnerable"
  /\ game.combo_count > 0

\* ------------------------------------------------------------------ C28
\* the enemy's health after the strikes of the frame, before the swing
HealthAtHit == Max(0, enemy.health - last'.strike_hits * LIGHTNING_DAMAGE)

\* C28: the damage of a connecting swing is
\* floor(base * (1 + 0.12 * comboCount + (0.08 if time dilation is active))),
\* comboCount being the count before the hit's own increment, multiplied
\* by 1.25 and floored again if the enemy is Stunned when the hit lands,
\* and the enemy's health falls by exactly that amount, clamped at 0.
\* (For the base damages 12 and 24 and combo counts below 60 the binary64
\* product of _calculate_combo_damage truncates to the exact floor.)
C28_HitDamage ==
  [][(last'.op = "update" /\ last'.player_hit)
      => /\ last'.hit_damage
              = SwingDamage(player'.current_attack.damage, last'.hit_combo,
                            game'.time_slow_timer > 0, last'.hit_stunned)
         /\ enemy'.health = Max(0, HealthAtHit - last'.hit_damage)
         /\ last'.strike_hits = 0
              => last'.hit_combo = UpdateComboTimer(game, last'.dt).combo_count
         /\ last'.enemy_hit /= "damage"
              => game'.combo_count = last'.hit_combo + 1]_vars

\* a swing has just landed on the stunned enemy with the combo running
\* and time dilation active, for more than twice its base damage
C28_Witness ==
  /\ last.op = "update" /\ last.player_hit
  /\ last.hit_stunned /\ last.hit_combo >= 1 /\ game.time_slow_timer > 0
  /\ last.hit_damage > 2 * player.current_attack.damage
  /\ enemy.health > 0

\* a swing has landed while time dilation was active
HitWhileSlowed ==
  /\ last.op = "update" /\ last.player_hit
  /\ game.time_slow_timer > 0

\* ------------------------------------------------------------------ C29
\* the shortest windup the adaptive model may set, ms
WINDUP_FLOOR == 220

\* the enemy's states that run the state timer
TimedStates == {"WINDUP", "ATTACK", "RECOVER", "STUNNED"}

\* C29: windup_duration >= 0.22 s in every reachable state; a state timer
\* that is running is only counted down by the enemy's frame time, whatever
\* the histogram does meanwhile, so a windup in progress keeps the
\* duration it was entered with; and a Chase->Windup entry takes the
\* duration as the frames before it have tuned it.
C29_WindupTuning ==
  /\ [](enemy.windup_duration >= WINDUP_FLOOR)
  /\ [][(enemy.state \in TimedStates /\ enemy'.state = enemy.state
           /\ last'.op /= "reset" /\ NoPlayerBlow)
          => enemy'.state_timer = enemy.state_timer - last'.enemy_dt]_vars
  /\ [][(enemy.state = "CHASE" /\ enemy'.state = "WINDUP")
          => enemy'.state_timer = enemy.windup_duration]_vars

\* a windup is in progress with more time left on its timer than the
\* duration the histogram has meanwhile been tuned to
C29_Witness ==
  /\ last.op = "update" /\ enemy.state = "WINDUP"
  /\ enemy.state_timer < 350
  /\ enemy.state_timer > enemy.windup_duration

\* a windup has been entered with a duration other than the untuned 0.35 s
TunedWindupEntered ==
  /\ last.op = "update" /\ enemy.state = "WINDUP"
  /\ enemy.state_timer = enemy.windup_duration
  /\ enemy.windup_duration /= 350

\* ------------------------------------------------------------------ C30
\* a parry has been triggered and no feedback has answered it yet
ParryOpen == player.parry_triggered

\* the frame hands "success" / "fail" to the feedback line (lines 995-999)
EmitsSuccess == last'.op = "update" /\ last'.feedback = "success"
EmitsFail == last'.op = "update" /\ last'.feedback = "fail"

\* what every step does about parry feedback: K_f is accepted only when no
\* earlier parry is still open; the open parry is closed only by a frame
\* that emits feedback (or by K_r); "success" is emitted only for an open
\* parry whose window is still open, by the frame in which the enemy's
\* attack is parried; "fail" is emitted only for an open parry, by the
\* frame in which its window expires.
ParryFeedbackSteps ==
  /\ [][(last'.op = "parry" /\ last'.accepted)
          => ~ParryOpen /\ player'.parry_triggered]_vars
  /\ [][(ParryOpen /\ ~player'.parry_triggered /\ last'.op /= "reset")
          => EmitsSuccess \/ EmitsFail]_vars
  /\ [][EmitsSuccess
          => /\ ParryOpen /\ ~player'.parry_triggered
             /\ last'.enemy_hit = "parry"
             /\ player'.parry_timer > 0]_vars
  /\ [][EmitsFail
          => /\ ParryOpen /\ ~player'.parry_triggered
             /\ last'.enemy_hit /= "parry"
             /\ player.parry_timer > 0 /\ player'.parry_timer = 0]_vars

\* C30 as stated: every parry triggered is answered by a feedback event.
C30_ParryAnswered ==
  /\ ParryFeedbackSteps
  /\ ParryOpen ~> ~ParryOpen

\* C30, while the game is running: every parry triggered is answered by
\* exactly one feedback event, "success" if the enemy's attack is parried
\* while the window is open and otherwise "fail" in the frame the window
\* expires, unless the fight ends first (Victory or Defeat, in which update
\* does nothing and the parry stays open until the game is reset).
C30_ParryAnsweredRunning ==
  /\ ParryFeedbackSteps
  /\ ParryOpen ~> (~ParryOpen \/ Terminal)

\* the window of a parry triggered too early has just expired: "MISS"
C30_Witness ==
  /\ last.op = "update" /\ last.feedback = "fail"
  /\ ~player.parry_triggered /\ player.parry_timer = 0
  /\ game.parry_feedback_text = "MISS"

\* the enemy's attack has just been parried: "PARRY!"
ParrySuccessAnswered ==
  /\ last.op = "update" /\ last.feedback = "success"
  /\ game.parry_feedback_text = "PARRY!"

\* the fight is over with a parry open
ParryOpenAtEnd == Terminal /\ ParryOpen

\* ------------------------------------------------------------------ C31
\* the strike makes its resolution attempt in a frame of this length
Resolving(strike, dt) == ~strike.applied /\ strike.warmup <= dt

\* the strike as a frame of this length leaves it
Aged(strike, dt) ==
  [strike EXCEPT !.timer = Max(0, @ - dt),
                 !.warmup = Max(0, @ - dt),
                 !.applied = @ \/ strike.warmup <= dt]

\* the strikes of the list that outlive a frame of this length, aged
RECURSIVE Survivors(_, _)
Survivors(strikes, dt) ==
  IF strikes = << >> THEN << >>
  ELSE (IF Head(strikes).timer - dt > 0
          THEN <<Aged(Head(strikes), dt)>> ELSE << >>)
       \o Survivors(Tail(strikes), dt)

\* C31: each strike gets a single resolution attempt.  A strike in the
\* list has lifetime left, its warmup runs out 0.18 s into its lifetime, and
\* it is marked applied exactly when its warmup has reached 0; a frame ages every strike by dt, marks those whose warmup
\* runs out in it, hit or miss, and drops those whose lifetime runs out in
\* it (their attempt made in the same frame at the latest); lightning
\* lands only for strikes making their attempt in the frame, so a frame
\* entered with every strike applied takes nothing off the enemy by
\* lightning, wherever the enemy stands.
C31_SingleAttempt ==
  /\ [](\A strike \in Strikes(game) :
          /\ strike.timer > 0
          /\ strike.applied <=> strike.warmup = 0
          /\ strike.warmup
               = Max(0, strike.timer - (LIGHTNING_LIFETIME - LIGHTNING_WARMUP)))
  /\ [][(last'.op = "update" /\ last'.accepted)
          => /\ game'.lightning_effects
                  = Survivors(game.lightning_effects, last'.dt)
             /\ last'.strike_hits
                  <= Cardinality({i \in DOMAIN game.lightning_effects :
                        Resolving(game.lightning_effects[i], last'.dt)})
             /\ (last'.strike_hits = 0 /\ ~last'.player_hit)
                  => enemy'.health = enemy.health]_vars

\* the strike that missed is still in the list and a second swing has just
\* knocked the enemy back inside its radius: the enemy has lost 40 points
\* or fewer to two blows, so none of them was the strike (30 or more, and a
\* swing 12 or more)
C31_Witness ==
  /\ last.op = "update" /\ last.player_hit /\ last.strike_hits = 0
  /\ enemy.health >= ENEMY_MAX_HEALTH - 40 /\ game.combo_count = 2
  /\ \E strike \in Strikes(game) : strike.applied /\ InStrikeRange(enemy, strike)

\* a strike has just made its attempt and missed
StrikeMissed ==
  /\ last.op = "update" /\ last.strike_hits = 0
  /\ \E strike \in Strikes(game) :
       /\ strike.applied /\ strike.warmup = 0
       /\ strike.timer + last.dt > LIGHTNING_LIFETIME - LIGHTNING_WARMUP
       /\ ~InStrikeRange(enemy, strike)

\* ------------------------------------------------------------------ C32
\* C32: a successful parry grants the parry myth-energy gain once per
\* parried attack: in a frame whose enemy attack is parried and in which no
\* blow of the player lands, the player's myth energy after the frame is
\* min(max_myth_energy, myth energy before + MYTH_ENERGY_PARRY_GAIN).
C32_ParryGainOnce ==
  [][(last'.op = "update" /\ last'.accepted /\ last'.enemy_hit = "parry"
        /\ NoPlayerBlow)
       => player'.myth_energy
            = Min(MAX_MYTH_ENERGY, player.myth_energy + MYTH_ENERGY_PARRY_GAIN)]_vars

\* what the code does: register_parry_success and CombatGame.update each add
\* the gain, each with its own cap
C32_ParryGainTwice ==
  [][(last'.op = "update" /\ last'.accepted /\ last'.enemy_hit = "parry"
        /\ NoPlayerBlow)
       => player'.myth_energy
            = Min(MAX_MYTH_ENERGY,
                  player.myth_energy + 2 * MYTH_ENERGY_PARRY_GAIN)]_vars

\* a parry has just succeeded on the starting myth energy
ParriedFromStart ==
  /\ last.op = "update" /\ last.enemy_hit = "parry"
  /\ player.myth_energy = MYTH_ENERGY_START + 2 * MYTH_ENERGY_PARRY_GAIN

\* ------------------------------------------------------------------ C33
\* C33: the mode is Running if and only if both actors have health > 0, and
\* no reachable state has both healths at 0: a frame that lowers the
\* enemy's health leaves the enemy Stunned and resolves no enemy-to-player
\* hit, so it leaves the player's health as it was.
C33_RunningIffAlive ==
  /\ [](game.mode = "RUNNING" <=> (player.health > 0 /\ enemy.health > 0))
  /\ [](~(player.health = 0 /\ enemy.health = 0))
  /\ [][(last'.op = "update" /\ enemy'.health < enemy.health)
          => /\ last'.accepted
             /\ enemy'.state = "STUNNED"
             /\ last'.enemy_hit = "none"
             /\ player'.health = player.health]_vars

\* C33 witness: the enemy's hit has just brought the player's health to 0
\* in a fight in which the enemy had been hurt as well; the mode is Defeat
\* and the enemy is alive
C33_Witness ==
  /\ last.op = "update" /\ last.enemy_hit = "damage"
  /\ player.health = 0 /\ game.mode = "DEFEAT"
  /\ enemy.health > 0 /\ enemy.health < ENEMY_MAX_HEALTH

\* ------------------------------------------------------------------ C34
\* C34: at most one lightning strike is alive at any time.  The cooldown
\* started at a cast and the lifetime of the strike it created count down
\* together, so while the strike is in the list the cooldown is ahead of its
\* timer by the 4.1 s between the two; a cast is accepted only with the
\* list empty and leaves one strike in it.
C34_OneStrike ==
  /\ [](Len(game.lightning_effects) <= 1)
  /\ [](\A strike \in Strikes(game) :
          game.lightning_cooldown
            = strike.timer + (LIGHTNING_COOLDOWN - LIGHTNING_LIFETIME))
  /\ [][(last'.op = "lightning" /\ last'.accepted)
          => /\ game.lightning_effects = << >>
             /\ Len(game'.lightning_effects) = 1]_vars

\* C34 witness: the frame just run has removed the strike at the end of its
\* 0.9 s, and some 4.1 s of the cooldown of its cast are still to run
C34_Witness ==
  /\ last.op = "update" /\ last.accepted
  /\ game.lightning_effects = << >>
  /\ game.lightning_cooldown <= LIGHTNING_COOLDOWN - LIGHTNING_LIFETIME
  /\ game.lightning_cooldown + last.dt > LIGHTNING_COOLDOWN - LIGHTNING_LIFETIME

\* ------------------------------------------------------------------ C35
\* C35: from the initial state, with no input at all and frames of any
\* length, the enemy stays in Patrol forever and neither actor's health
\* ever changes: the player stays where they stood, the patrol keeps the
\* enemy's left edge at WIDTH/2 or beyond, and so the centres are never
\* less than 220 apart.
C35_PatrolForever ==
  [](/\ enemy.state = "PATROL"
     /\ player.health = MAX_HEALTH /\ enemy.health = ENEMY_MAX_HEALTH
     /\ player.rect.x = WorldInit.p.rect.x
     /\ enemy.rect.x >= PATROL_LO
     /\ CenterX(enemy.rect) - CenterX(player.rect) >= CHASE_RANGE)

\* C35 witness: the patrol has just turned round at its left bound, the
\* centres exactly 220 apart
C35_Witness ==
  /\ last.op = "update" /\ last.accepted
  /\ enemy.rect.x = PATROL_LO /\ enemy.facing = 1
  /\ CenterX(enemy.rect) - CenterX(player.rect) = CHASE_RANGE

\* ------------------------------------------------------------------ C36
\* the combo counts a fight can reach: every hit that counts takes at least
\* a light attack's damage off the enemy
ComboCounts == 1 .. (ENEMY_MAX_HEALTH \div LIGHT_ATTACK.damage)

\* a positive combo has a running reset timer
ComboTimed ==
  /\ game.combo_count > 0 => game.combo_timer > 0
  /\ game.combo_count > 0 => game.combo_count \in ComboCounts

C37_DamageOnce ==
  /\ [][player'.health < player.health
          => /\ last'.op = "update" /\ last'.accepted
             /\ last'.enemy_hit = "damage"
             /\ player'.health = Max(0, player.health - ENEMY_ATTACK_DAMAGE)]_vars
  /\ [][(last'.op = "update" /\ last'.enemy_hit = "damage")
          => /\ enemy.state = "ATTACK"
             /\ enemy'.state = "RECOVER"
             /\ enemy'.state_timer = 800]_vars
  /\ [][(enemy'.state = "ATTACK" /\ enemy.state /= "ATTACK")
          => /\ last'.op = "update" /\ last'.accepted
             /\ enemy.state = "WINDUP"]_vars

\* C37 witness: a hit-stop frame has just run after the enemy's hit; the
\* enemy's timer has not advanced, the hitbox of the attack is still on the
\* player, and the player has not been damaged again
C37_Witness ==
  /\ last.op = "update" /\ last.accepted /\ last.effective_dt = 0
  /\ last.enemy_hit = "none"
  /\ enemy.state = "RECOVER" /\ enemy.state_timer = 800
  /\ Truthy(enemy.attack_rect) /\ CollideRect(enemy.attack_rect, player.rect)
  /\ player.health = MAX_HEALTH - ENEMY_ATTACK_DAMAGE

====
